---- MODULE Spec2Model ----
(***************************************************************************)
(* Graph substructure indexing pipeline (A1/q3): graph store and           *)
(* deduplication, fallback pattern miner, discriminative selection,        *)
(* isomorphism oracle, feature indexer and candidate generator.            *)
(*                                                                         *)
(* Each tool is modelled as one action that runs the whole function on    *)
(* inputs drawn in the initial state; there is one specification per      *)
(* tool:                                                                   *)
(*   SpecCand   generate_candidates.py                                     *)
(*   SpecFeat   convert_to_features.py followed by generate_candidates.py *)
(*   SpecFeatLabels  the same tools on graphs that differ in labels        *)
(*   SpecDedup  graph_parser.remove_duplicates                             *)
(*   SpecSelect identify_discriminative.select_discriminative_subgraphs   *)
(*   SpecMine   identify_discriminative.mine_frequent_subgraphs_simple    *)
(*   SpecParse  graph_parser.parse_graph_dataset                           *)
(*   SpecPipe   identify_discriminative.main                               *)
(* Python indices are 0-based and are kept 0-based wherever they are data *)
(* (graph ids, pattern ids, candidate row indices); TLA+ sequences are    *)
(* 1-based, so row j of a matrix is rows[j + 1].                           *)
(***************************************************************************)
EXTENDS Integers, Sequences, FiniteSets, TLC

VARIABLES
    pc,               \* position of the running tool
    graphs,           \* the graph list a tool works on (objects with a mutable id)
    unique_graphs,    \* result of the first remove_duplicates call
    unique_again,     \* result of remove_duplicates applied to unique_graphs
    query_graphs,     \* query graphs given to the feature converter
    patterns,         \* pattern list (objects with a mutable discriminative_score)
    db_features,      \* database feature matrix
    query_features,   \* query feature matrix
    candidates,       \* value returned by generate_candidates
    scanned,          \* number of (query row, db row) scans started so far
    total_graphs,     \* select_discriminative_subgraphs argument
    k,                \* select_discriminative_subgraphs argument
    selected,         \* value returned by select_discriminative_subgraphs
    min_support_pct,  \* mine_frequent_subgraphs_simple argument
    lines,            \* lines of the dataset file given to parse_graph_dataset
    miner,            \* what the external miner does when it is probed and run
    success,          \* main's local `success`
    results,          \* values returned by the run_gspan calls so far
    mined_by,         \* which miner produced main's pattern list
    saved             \* what save_discriminative_subgraphs has written

vars == <<pc, graphs, unique_graphs, unique_again, query_graphs, patterns,
          db_features, query_features, candidates, scanned, total_graphs, k,
          selected, min_support_pct, lines, miner, success, results,
          mined_by, saved>>

(***************************************************************************)
(* Generic helpers                                                         *)
(***************************************************************************)
Range(s) == {s[i] : i \in DOMAIN s}

SeqsUpTo(S, n) == UNION {[1..m -> S] : m \in 0..n}

Min2(a, b) == IF a <= b THEN a ELSE b

NoValue == <<>>

\* No external miner has been looked at, and nothing has been written.
NoMiner == [exists |-> FALSE, runs |-> <<>>]

NotSaved == [written |-> FALSE, patterns |-> <<>>]

(***************************************************************************)
(* Feature matrices: a numpy 2-D array keeps its column count even when    *)
(* it has no rows, so a matrix is a record of the column count and rows.   *)
(***************************************************************************)
Bit == {0, 1}

Matrix(nrows, ncols) ==
    [ncols : {ncols}, rows : [1..nrows -> [1..ncols -> Bit]]]

MatricesUpTo(maxRows, maxCols) ==
    UNION {Matrix(r, c) : r \in 0..maxRows, c \in 0..maxCols}

EmptyMatrix == [ncols |-> 0, rows |-> <<>>]

(***************************************************************************)
(* generate_candidates.py                                                  *)
(***************************************************************************)
MaxDbRows == 2
MaxQueryRows == 2
MaxCols == 2

\* The column loop of one (query row, db row) pair read with the operands
\* exchanged: a row is dropped where the db has a feature the query lacks.
RECURSIVE ScanRowReversed(_, _, _)
ScanRowReversed(query_vec, db_vec, kk) ==
    IF kk > Len(query_vec) THEN "candidate"
    ELSE IF kk <= Len(db_vec) /\ db_vec[kk] = 1 /\ query_vec[kk] = 0
         THEN "rejected"
         ELSE ScanRowReversed(query_vec, db_vec, kk + 1)

\* Lines 46-50: for k in range(len(query_vec)): the test
\* `query_vec[k] == 1 and db_vec[k] == 0` short-circuits, so db_vec[k] is
\* read only where the query has a 1; reading past the end of db_vec raises
\* IndexError.
RECURSIVE ScanRow(_, _, _)
ScanRow(query_vec, db_vec, kk) ==
    IF kk > Len(query_vec) THEN "candidate"
    ELSE IF query_vec[kk] = 1
         THEN IF kk > Len(db_vec) THEN "IndexError"
              ELSE IF db_vec[kk] = 0 THEN "rejected"
                   ELSE ScanRow(query_vec, db_vec, kk + 1)
         ELSE ScanRow(query_vec, db_vec, kk + 1)

\* The scan with each accepted row put in front of the list.
RECURSIVE QueryCandidatesPrepending(_, _, _, _, _)
QueryCandidatesPrepending(query_vec, db, j, acc, n) ==
    IF j >= Len(db.rows) THEN [error |-> FALSE, list |-> acc, scans |-> n]
    ELSE LET r == ScanRow(query_vec, db.rows[j + 1], 1)
         IN  IF r = "IndexError"
             THEN [error |-> TRUE, list |-> acc, scans |-> n + 1]
             ELSE QueryCandidatesPrepending(query_vec, db, j + 1,
                                  IF r = "candidate" THEN <<j>> \o acc ELSE acc,
                                  n + 1)

\* Lines 37-53: the scan of the database rows for one query row, from db
\* row j on (0-based).  The result carries the candidate list built so far,
\* whether IndexError escaped, and how many row scans were started.
RECURSIVE QueryCandidates(_, _, _, _, _)
QueryCandidates(query_vec, db, j, acc, n) ==
    IF j >= Len(db.rows) THEN [error |-> FALSE, list |-> acc, scans |-> n]
    ELSE LET r == ScanRow(query_vec, db.rows[j + 1], 1)
         IN  IF r = "IndexError"
             THEN [error |-> TRUE, list |-> acc, scans |-> n + 1]
             ELSE QueryCandidates(query_vec, db, j + 1,
                                  IF r = "candidate" THEN Append(acc, j) ELSE acc,
                                  n + 1)

\* Lines 24-60: generate_candidates(db_features, query_features).
RECURSIVE CandidatesFrom(_, _, _, _, _)
CandidatesFrom(db, query, i, acc, n) ==
    IF i >= Len(query.rows) THEN [error |-> FALSE, result |-> acc, scans |-> n]
    ELSE LET q == QueryCandidates(query.rows[i + 1], db, 0, <<>>, 0)
         IN  IF q.error
             THEN [error |-> TRUE, result |-> NoValue, scans |-> n + q.scans]
             ELSE CandidatesFrom(db, query, i + 1, Append(acc, q.list),
                                 n + q.scans)

generate_candidates(db, query) == CandidatesFrom(db, query, 0, <<>>, 0)

\* generate_candidates.main, lines 94-121: the two matrices are loaded and
\* handed to generate_candidates with no shape check; an exception ends the
\* tool before anything is written.
CandMain ==
    /\ pc = "cand_loaded"
    /\ LET r == generate_candidates(db_features, query_features)
       IN  /\ pc' = IF r.error THEN "cand_error" ELSE "cand_done"
           /\ candidates' = r.result
           /\ scanned' = r.scans
    /\ UNCHANGED <<lines, miner, success, results, mined_by, saved>>
    /\ UNCHANGED <<graphs, unique_graphs, unique_again, query_graphs, patterns,
                   db_features, query_features, total_graphs, k, selected,
                   min_support_pct>>

InitCand ==
    /\ lines = <<>> /\ miner = NoMiner /\ success = FALSE
    /\ results = <<>> /\ mined_by = "none" /\ saved = NotSaved
    /\ pc = "cand_loaded"
    /\ db_features \in MatricesUpTo(MaxDbRows, MaxCols)
    /\ query_features \in MatricesUpTo(MaxQueryRows, MaxCols)
    /\ candidates = NoValue
    /\ scanned = 0
    /\ graphs = <<>> /\ unique_graphs = <<>> /\ unique_again = <<>>
    /\ query_graphs = <<>> /\ patterns = <<>>
    /\ total_graphs = 0 /\ k = 0 /\ selected = <<>> /\ min_support_pct = 0

NextCand == CandMain

SpecCand == InitCand /\ [][NextCand]_vars

\* db row j (0-based) dominates query row i: wherever the query has a 1 the
\* db row has a 1.
Dominates(db, query, i, j) ==
    \A c \in 1..query.ncols :
        query.rows[i + 1][c] = 1 => db.rows[j + 1][c] = 1

SameShape == db_features.ncols = query_features.ncols

\* C1: for matrices with the same columns, generate_candidates returns, for
\* every query row i, a duplicate-free list holding exactly the db row
\* indices j whose row dominates query row i.
C1_ExactDominationSet ==
    (pc = "cand_done" /\ SameShape) =>
        /\ Len(candidates) = Len(query_features.rows)
        /\ \A i \in 0..(Len(query_features.rows) - 1) :
              /\ Range(candidates[i + 1]) =
                    {j \in 0..(Len(db_features.rows) - 1) :
                        Dominates(db_features, query_features, i, j)}
              /\ Cardinality(Range(candidates[i + 1])) = Len(candidates[i + 1])

\* The spec's scenarios 2 and 3 and a case where some but not all rows
\* dominate have been computed.
C1_Witness ==
    /\ pc = "cand_done"
    /\ db_features.rows = <<<<1, 0>>, <<1, 1>>>>
    /\ query_features.rows = <<<<1, 0>>, <<1, 1>>>>
    /\ candidates = <<<<0, 1>>, <<1>>>>

\* C3: matrices with different column counts (and rows to scan) are
\* rejected with an error before any row is scanned, and no candidate lists
\* are returned for them.
C3_ShapeMismatchRejected ==
    (/\ pc \in {"cand_done", "cand_error"}
     /\ ~SameShape
     /\ db_features.rows # <<>>
     /\ query_features.rows # <<>>) =>
        (pc = "cand_error" /\ scanned = 0)

(***************************************************************************)
(* graph_parser.Graph: nodes is a dict (node id -> label, kept here as its *)
(* items in insertion order), edges a list of (source, target, label).     *)
(***************************************************************************)
NoLabel == -1    \* Python None: the label of a node networkx added implicitly

Graph(graph_id) == [id |-> graph_id, nodes |-> <<>>, edges |-> <<>>]

NodeIds(g) == {g.nodes[i][1] : i \in DOMAIN g.nodes}

NodeLabel(g, n) ==
    g.nodes[CHOOSE i \in DOMAIN g.nodes : g.nodes[i][1] = n][2]

\* Graph.add_node, lines 20-22: self.nodes[node_id] = label (a dict store:
\* an existing key keeps its place and takes the new label).
add_node(g, node_id, label) ==
    IF node_id \in NodeIds(g)
    THEN [g EXCEPT !.nodes =
            [i \in DOMAIN g.nodes |->
                IF g.nodes[i][1] = node_id THEN <<node_id, label>>
                                           ELSE g.nodes[i]]]
    ELSE [g EXCEPT !.nodes = Append(g.nodes, <<node_id, label>>)]

\* Graph.add_edge, lines 24-26: the triple is appended unconditionally.
add_edge(g, source, target, label) ==
    [g EXCEPT !.edges = Append(g.edges, <<source, target, label>>)]

num_nodes(g) == Len(g.nodes)

num_edges(g) == Len(g.edges)

\* A graph given by the labels of its nodes 0..n-1 and its edge triples,
\* built by the calls the parser makes for its v lines, then its e lines.
RECURSIVE AddNodes(_, _, _)
AddNodes(g, labels, i) ==
    IF i > Len(labels) THEN g
    ELSE AddNodes(add_node(g, i - 1, labels[i]), labels, i + 1)

RECURSIVE AddEdges(_, _, _)
AddEdges(g, es, i) ==
    IF i > Len(es) THEN g
    ELSE AddEdges(add_edge(g, es[i][1], es[i][2], es[i][3]), es, i + 1)

MkGraph(graph_id, labels, es) ==
    AddEdges(AddNodes(Graph(graph_id), labels, 1), es, 1)

(***************************************************************************)
(* networkx.Graph as the code uses it: an undirected simple graph whose    *)
(* node and adjacency dicts keep insertion order.  nodes lists the node    *)
(* ids in insertion order, label maps a node to its 'label' attribute      *)
(* (NoLabel when add_edge created the node), adj maps a node to its        *)
(* neighbours in insertion order and elabel maps an ordered pair of        *)
(* adjacent nodes to the edge's 'label' (the last one stored).             *)
(***************************************************************************)
NxEmpty == [nodes |-> <<>>, label |-> <<>>, adj |-> <<>>, elabel |-> <<>>]

InSeq(x, s) == \E i \in DOMAIN s : s[i] = x

AppendNew(s, x) == IF InSeq(x, s) THEN s ELSE Append(s, x)

\* Function f with key a set to b (added when absent).
Put(f, a, b) == [x \in (DOMAIN f) \cup {a} |-> IF x = a THEN b ELSE f[x]]

NxAddNode(G, n, label) ==
    [G EXCEPT !.nodes = AppendNew(G.nodes, n),
              !.label = Put(G.label, n, label),
              !.adj   = IF n \in DOMAIN G.adj THEN G.adj ELSE Put(G.adj, n, <<>>)]

NxTouch(G, n) == IF InSeq(n, G.nodes) THEN G ELSE NxAddNode(G, n, NoLabel)

NxAddEdge(G, u, v, label) ==
    LET H == NxTouch(NxTouch(G, u), v)
        a1 == Put(H.adj, u, AppendNew(H.adj[u], v))
        a2 == Put(a1, v, AppendNew(a1[v], u))
    IN  [H EXCEPT !.adj = a2,
                  !.elabel = Put(Put(H.elabel, <<u, v>>, label), <<v, u>>, label)]

RECURSIVE NxAddNodes(_, _, _)
NxAddNodes(G, items, i) ==
    IF i > Len(items) THEN G
    ELSE NxAddNodes(NxAddNode(G, items[i][1], items[i][2]), items, i + 1)

RECURSIVE NxAddEdges(_, _, _)
NxAddEdges(G, es, i) ==
    IF i > Len(es) THEN G
    ELSE NxAddEdges(NxAddEdge(G, es[i][1], es[i][2], es[i][3]), es, i + 1)

\* convert_to_features.graph_to_networkx, lines 14-24: the nodes in dict
\* order, then the edges in list order.
graph_to_networkx(graph) ==
    NxAddEdges(NxAddNodes(NxEmpty, graph.nodes, 1), graph.edges, 1)

NxNodes(G) == Range(G.nodes)

has_edge(G, u, v) == <<u, v>> \in DOMAIN G.elabel

Injective(m) == \A a, b \in DOMAIN m : a # b => m[a] # m[b]

\* The matcher without edge_match: mapped edges may differ in their labels.
SubgraphIsIsomorphicAnyEdgeLabel(P, T) ==
    \E m \in [NxNodes(P) -> NxNodes(T)] :
        /\ Injective(m)
        /\ \A u \in NxNodes(P) : T.label[m[u]] = P.label[u]
        /\ \A u, v \in NxNodes(P) :
              has_edge(P, u, v) <=> has_edge(T, m[u], m[v])

\* isomorphism.GraphMatcher(target_nx, pattern_nx, node_match, edge_match)
\* .subgraph_is_isomorphic(): networkx answers whether a NODE-INDUCED
\* subgraph of the first graph is isomorphic to the second one.  Its
\* syntactic feasibility test requires, for every pair of mapped nodes, an
\* edge in the target exactly when the pattern has one (self-loops
\* included); its semantic test applies node_match to every mapped node and
\* edge_match to every mapped edge.
SubgraphIsIsomorphic(P, T) ==
    \E m \in [NxNodes(P) -> NxNodes(T)] :
        /\ Injective(m)
        /\ \A u \in NxNodes(P) : T.label[m[u]] = P.label[u]
        /\ \A u, v \in NxNodes(P) :
              /\ has_edge(P, u, v) <=> has_edge(T, m[u], m[v])
              /\ has_edge(P, u, v) =>
                    T.elabel[<<m[u], m[v]>>] = P.elabel[<<u, v>>]

\* convert_to_features.is_subgraph_isomorphic, lines 27-48.
is_subgraph_isomorphic(pattern_graph, target_graph) ==
    SubgraphIsIsomorphic(graph_to_networkx(pattern_graph),
                         graph_to_networkx(target_graph))

(***************************************************************************)
(* identify_discriminative.SubgraphPattern, lines 22-29.  The float        *)
(* discriminative_score is kept exactly, as numerator and denominator.     *)
(***************************************************************************)
SubgraphPattern(pattern_id, graph, support, graph_ids) ==
    [id |-> pattern_id, graph |-> graph, support |-> support,
     graph_ids |-> graph_ids, discriminative_score |-> <<0, 1>>]

(***************************************************************************)
(* convert_to_features.convert_graphs_to_features, lines 51-85            *)
(***************************************************************************)
ZeroMatrix(nrows, ncols) ==
    [ncols |-> ncols, rows |-> [i \in 1..nrows |-> [j \in 1..ncols |-> 0]]]

\* The cell test with pattern and graph exchanged.
CellHitSwapped(graph, pattern) == is_subgraph_isomorphic(graph, pattern.graph)

\* Line 79: if is_subgraph_isomorphic(pattern.graph, graph).
CellHit(graph, pattern) == is_subgraph_isomorphic(pattern.graph, graph)

\* Lines 77-80: the inner loop over the patterns for graph i (0-based),
\* from pattern j on; features[i, j] = 1 on a hit.
RECURSIVE ConvertRow(_, _, _, _, _)
ConvertRow(features, gs, ps, i, j) ==
    IF j >= Len(ps) THEN features
    ELSE ConvertRow(IF CellHit(gs[i + 1], ps[j + 1])
                    THEN [features EXCEPT !.rows[i + 1][j + 1] = 1]
                    ELSE features,
                    gs, ps, i, j + 1)

\* Lines 72-80: the outer loop over the graphs.
RECURSIVE ConvertFrom(_, _, _, _)
ConvertFrom(features, gs, ps, i) ==
    IF i >= Len(gs) THEN features
    ELSE ConvertFrom(ConvertRow(features, gs, ps, i, 0), gs, ps, i + 1)

convert_graphs_to_features(gs, ps) ==
    ConvertFrom(ZeroMatrix(Len(gs), Len(ps)), gs, ps, 0)

(***************************************************************************)
(* The feature tools run one after the other on the same pattern index:    *)
(* convert_to_features on the database graphs, convert_to_features on the  *)
(* query graphs, generate_candidates on the two matrices.                  *)
(***************************************************************************)
MaxFeat == 2     \* database graphs and patterns per run

\* Bodies the graphs and patterns of a run are drawn from, as node labels
\* (of nodes 0..n-1) and edge triples: an edge, a 2-edge path, a triangle,
\* the path with another centre label.
FeatShapes ==
    { <<<<0, 0>>,    <<<<0, 1, 0>>>>>>,
      <<<<0, 0, 0>>, <<<<0, 1, 0>>, <<1, 2, 0>>>>>>,
      <<<<0, 0, 0>>, <<<<0, 1, 0>>, <<1, 2, 0>>, <<2, 0, 0>>>>>>,
      <<<<0, 1, 0>>, <<<<0, 1, 0>>, <<1, 2, 0>>>>>> }

\* parse_graph_dataset numbers the graphs of a file 0, 1, ... in file order.
GraphList(shapes) ==
    [i \in DOMAIN shapes |-> MkGraph(i - 1, shapes[i][1], shapes[i][2])]

\* A pickled pattern index: patterns 0, 1, ... with the given bodies.
PatternList(shapes) ==
    [i \in DOMAIN shapes |->
        SubgraphPattern(i - 1, MkGraph(i - 1, shapes[i][1], shapes[i][2]),
                        0, {})]

InitFeat ==
    /\ lines = <<>> /\ miner = NoMiner /\ success = FALSE
    /\ results = <<>> /\ mined_by = "none" /\ saved = NotSaved
    /\ pc = "feat_loaded"
    /\ \E ss \in SeqsUpTo(FeatShapes, MaxFeat) : graphs = GraphList(ss)
    /\ \E ss \in [1..1 -> FeatShapes] : query_graphs = GraphList(ss)
    /\ \E ss \in SeqsUpTo(FeatShapes, MaxFeat) : patterns = PatternList(ss)
    /\ db_features = EmptyMatrix /\ query_features = EmptyMatrix
    /\ candidates = NoValue /\ scanned = 0
    /\ unique_graphs = <<>> /\ unique_again = <<>>
    /\ total_graphs = 0 /\ k = 0 /\ selected = <<>> /\ min_support_pct = 0

\* convert_to_features.main on the database graphs, lines 98-111.
FeatConvertDb ==
    /\ pc = "feat_loaded"
    /\ db_features' = convert_graphs_to_features(graphs, patterns)
    /\ pc' = "feat_db"
    /\ UNCHANGED <<lines, miner, success, results, mined_by, saved>>
    /\ UNCHANGED <<graphs, unique_graphs, unique_again, query_graphs, patterns,
                   query_features, candidates, scanned, total_graphs, k,
                   selected, min_support_pct>>

\* convert_to_features.main on the query graphs.
FeatConvertQuery ==
    /\ pc = "feat_db"
    /\ query_features' = convert_graphs_to_features(query_graphs, patterns)
    /\ pc' = "feat_query"
    /\ UNCHANGED <<lines, miner, success, results, mined_by, saved>>
    /\ UNCHANGED <<graphs, unique_graphs, unique_again, query_graphs, patterns,
                   db_features, candidates, scanned, total_graphs, k,
                   selected, min_support_pct>>

\* generate_candidates.main on the two saved matrices.
FeatCandidates ==
    /\ pc = "feat_query"
    /\ LET r == generate_candidates(db_features, query_features)
       IN  /\ pc' = IF r.error THEN "feat_error" ELSE "feat_done"
           /\ candidates' = r.result
           /\ scanned' = r.scans
    /\ UNCHANGED <<lines, miner, success, results, mined_by, saved>>
    /\ UNCHANGED <<graphs, unique_graphs, unique_again, query_graphs, patterns,
                   db_features, query_features, total_graphs, k, selected,
                   min_support_pct>>

NextFeat == FeatConvertDb \/ FeatConvertQuery \/ FeatCandidates

SpecFeat == InitFeat /\ [][NextFeat]_vars

\* Containment as the spec defines it, on the data model: an injective map
\* of q's nodes to g's nodes that preserves node labels and sends every
\* edge of q to an edge of g between the mapped endpoints with the same
\* label; g may have further edges.
SpecContains(q, g) ==
    \E m \in [NodeIds(q) -> NodeIds(g)] :
        /\ Injective(m)
        /\ \A u \in NodeIds(q) : NodeLabel(g, m[u]) = NodeLabel(q, u)
        /\ \A e \in Range(q.edges) :
              \E f \in Range(g.edges) :
                  /\ f[3] = e[3]
                  /\ {f[1], f[2]} = {m[e[1]], m[e[2]]}

\* C2: once the candidates are computed, every database graph g that
\* contains the query q in the spec's sense has a feature row that is
\* component-wise >= q's row and is in q's candidate list.
C2_CandidateSoundness ==
    pc = "feat_done" =>
        \A qi \in DOMAIN query_graphs : \A gj \in DOMAIN graphs :
            SpecContains(query_graphs[qi], graphs[gj]) =>
                /\ \A c \in 1..Len(patterns) :
                      query_features.rows[qi][c] <= db_features.rows[gj][c]
                /\ (gj - 1) \in Range(candidates[qi])

\* C4: is_subgraph_isomorphic(pattern, target) is true exactly when the
\* pattern is contained in the target in the spec's (non-induced) sense.
C4_OracleIsNonInduced ==
    pc = "feat_db" =>
        \A gi \in DOMAIN graphs : \A pj \in DOMAIN patterns :
            is_subgraph_isomorphic(patterns[pj].graph, graphs[gi])
                <=> SpecContains(patterns[pj].graph, graphs[gi])

\* C5: the matrix convert_graphs_to_features returns has one row per graph
\* and one column per pattern, in input order, and entry [i][j] is 1 when
\* is_subgraph_isomorphic(patterns[j].graph, graphs[i]) holds and 0
\* otherwise.
C5_FeatureMatrixCells ==
    pc \in {"feat_db", "feat_query", "feat_done"} =>
        /\ db_features.ncols = Len(patterns)
        /\ Len(db_features.rows) = Len(graphs)
        /\ \A i \in DOMAIN graphs :
              /\ Len(db_features.rows[i]) = Len(patterns)
              /\ \A j \in DOMAIN patterns :
                    db_features.rows[i][j] =
                        IF is_subgraph_isomorphic(patterns[j].graph, graphs[i])
                        THEN 1 ELSE 0

\* A 2 x 2 matrix with both values in it, different in its rows and in its
\* columns, has been built: graphs (edge, triangle), patterns (edge, triangle).
C5_Witness ==
    /\ pc = "feat_db"
    /\ Len(graphs) = 2 /\ Len(patterns) = 2
    /\ db_features.rows = <<<<1, 0>>, <<1, 1>>>>

(***************************************************************************)
(* graph_parser.remove_duplicates, lines 90-111.  The graphs are Python    *)
(* objects: `graphs` is the heap in input-list order, a list of graphs is  *)
(* a sequence of references (positions in `graphs`), and assigning         *)
(* graph.id changes the object every list shares.                          *)
(***************************************************************************)
MaxDedupGraphs == 3

\* Python tuple order on integer tuples of one length.
RECURSIVE TupleLessFrom(_, _, _)
TupleLessFrom(a, b, i) ==
    IF i > Len(a) THEN FALSE
    ELSE IF a[i] # b[i] THEN a[i] < b[i]
         ELSE TupleLessFrom(a, b, i + 1)

TupleLess(a, b) == TupleLessFrom(a, b, 1)

RECURSIVE InsertSorted(_, _)
InsertSorted(s, x) ==
    IF s = <<>> THEN <<x>>
    ELSE IF TupleLess(x, Head(s)) THEN <<x>> \o s
         ELSE <<Head(s)>> \o InsertSorted(Tail(s), x)

\* sorted(list of tuples)
RECURSIVE Sorted(_)
Sorted(s) == IF s = <<>> THEN <<>> ELSE InsertSorted(Sorted(Tail(s)), Head(s))

\* The signature with the edge list left in file order.
SignatureUnsorted(graph) == <<Sorted(graph.nodes), graph.edges>>

\* Lines 101-103: str(sorted(graph.nodes.items())) + str(sorted(graph.edges)).
\* str() of a list of integer tuples determines the list, and the two lists
\* hold tuples of different lengths, so the string is kept as the pair of
\* sorted lists it prints.
Signature(graph) == <<Sorted(graph.nodes), Sorted(graph.edges)>>

\* The id taken from the graph's position in the list given.
ReassignedIdByPosition(unique, i) == i - 1

\* Line 108: graph.id = len(unique_graphs).
ReassignedId(unique, i) == Len(unique)

\* Lines 98-109: the loop over the list `refs` from its i-th entry on.
RECURSIVE DedupFrom(_, _, _, _, _)
DedupFrom(heap, refs, i, seen, unique) ==
    IF i > Len(refs) THEN [heap |-> heap, unique |-> unique]
    ELSE LET r == refs[i]
             signature == Signature(heap[r])
         IN  IF signature \notin seen
             THEN DedupFrom([heap EXCEPT ![r].id = ReassignedId(unique, i)],
                            refs, i + 1, seen \cup {signature},
                            Append(unique, r))
             ELSE DedupFrom(heap, refs, i + 1, seen, unique)

remove_duplicates(heap, refs) == DedupFrom(heap, refs, 1, {}, <<>>)

\* Input records: one edge, the same edge written the other way round, the
\* edge with another node label, a 2-edge path, and the same path with its
\* edge lines exchanged.
DedupShapes ==
    { <<<<0, 0>>,    <<<<0, 1, 0>>>>>>,
      <<<<0, 0>>,    <<<<1, 0, 0>>>>>>,
      <<<<0, 1>>,    <<<<0, 1, 0>>>>>>,
      <<<<0, 0, 0>>, <<<<0, 1, 0>>, <<1, 2, 0>>>>>>,
      <<<<0, 0, 0>>, <<<<1, 2, 0>>, <<0, 1, 0>>>>>> }

InitDedup ==
    /\ lines = <<>> /\ miner = NoMiner /\ success = FALSE
    /\ results = <<>> /\ mined_by = "none" /\ saved = NotSaved
    /\ pc = "dedup_parsed"
    /\ \E ss \in SeqsUpTo(DedupShapes, MaxDedupGraphs) : graphs = GraphList(ss)
    /\ unique_graphs = <<>> /\ unique_again = <<>>
    /\ query_graphs = <<>> /\ patterns = <<>>
    /\ db_features = EmptyMatrix /\ query_features = EmptyMatrix
    /\ candidates = NoValue /\ scanned = 0
    /\ total_graphs = 0 /\ k = 0 /\ selected = <<>> /\ min_support_pct = 0

\* graphs = remove_duplicates(graphs) on the parsed list
\* (identify_discriminative.main line 577, graph_parser lines 134-135).
DedupOnce ==
    /\ pc = "dedup_parsed"
    /\ LET r == remove_duplicates(graphs, [i \in 1..Len(graphs) |-> i])
       IN  /\ graphs' = r.heap
           /\ unique_graphs' = r.unique
    /\ pc' = "dedup_once"
    /\ UNCHANGED <<lines, miner, success, results, mined_by, saved>>
    /\ UNCHANGED <<unique_again, query_graphs, patterns, db_features,
                   query_features, candidates, scanned, total_graphs, k,
                   selected, min_support_pct>>

\* remove_duplicates applied to the list the first call returned.
DedupTwice ==
    /\ pc = "dedup_once"
    /\ LET r == remove_duplicates(graphs, unique_graphs)
       IN  /\ graphs' = r.heap
           /\ unique_again' = r.unique
    /\ pc' = "dedup_twice"
    /\ UNCHANGED <<lines, miner, success, results, mined_by, saved>>
    /\ UNCHANGED <<unique_graphs, query_graphs, patterns, db_features,
                   query_features, candidates, scanned, total_graphs, k,
                   selected, min_support_pct>>

NextDedup == DedupOnce \/ DedupTwice

SpecDedup == InitDedup /\ [][NextDedup]_vars

\* The number of entries of sequence s equal to x.
RECURSIVE CountIn(_, _)
CountIn(s, x) ==
    IF s = <<>> THEN 0
    ELSE (IF Head(s) = x THEN 1 ELSE 0) + CountIn(Tail(s), x)

\* Two graphs have the same canonical signature: the same (node id, label)
\* pairs and the same edge triples, each as often, whatever their order.
SameCanonical(g, h) ==
    /\ Range(g.nodes) = Range(h.nodes)
    /\ Len(g.edges) = Len(h.edges)
    /\ \A e \in Range(g.edges) : CountIn(g.edges, e) = CountIn(h.edges, e)

\* C7: applying remove_duplicates to its own result returns the same
\* graphs in the same order and leaves every graph's id as the first call
\* set it.
C7_DedupIdempotent ==
    [][pc = "dedup_once" =>
          (unique_again' = unique_graphs /\ graphs' = graphs)]_vars

\* The second call has run on a result from which the first call had
\* removed a duplicate and kept two graphs.
C7_Witness ==
    /\ pc = "dedup_twice"
    /\ Len(graphs) = 3
    /\ unique_again = <<1, 3>>

\* C8: remove_duplicates keeps exactly the first graph in input order of
\* each canonical signature, in input order, and numbers the survivors
\* 0, 1, ..., n-1 in that order.
C8_FirstOccurrenceKept ==
    pc = "dedup_once" =>
        /\ Range(unique_graphs) =
              {i \in DOMAIN graphs :
                  \A j \in 1..(i - 1) : ~SameCanonical(graphs[j], graphs[i])}
        /\ \A a, b \in DOMAIN unique_graphs :
              a < b => unique_graphs[a] < unique_graphs[b]
        /\ \A a \in DOMAIN unique_graphs : graphs[unique_graphs[a]].id = a - 1

\* A path, the same path with its edge lines exchanged, and an edge: the
\* second graph is dropped and the third one renumbered 1.
C8_Witness ==
    /\ pc = "dedup_once"
    /\ Len(graphs) = 3
    /\ unique_graphs = <<1, 3>>
    /\ Len(graphs[1].edges) = 2
    /\ graphs[2].edges # graphs[1].edges
    /\ graphs[3].id = 1

(***************************************************************************)
(* identify_discriminative.py: scoring and selection                       *)
(***************************************************************************)
K == 100                               \* line 17
MINM_SUPPPORT_THRESHOLD_PCT == 5       \* line 18: 0.05, in hundredths
MAXM_SUPPORT_THRESHOLD_PCT == 80       \* line 19: 0.80, in hundredths
MIN_EDGES == 2                         \* line 20

MaxSelPatterns == 3

\* A token of a line of the miner's output: a word, or a numeral with the
\* integer int() reads from it.
Word(w) == [sym |-> w, val |-> 0]

Numeral(n) == [sym |-> "numeral", val |-> n]

\* parse_gspan_output, lines 105-110: the support of a pattern header
\* `t # <id> * <support>` is int() of the token after the first '*', and 0
\* when there is no such token.  The value is not compared with the number
\* of graphs.
HeaderSupport(parts) ==
    IF \E i \in DOMAIN parts : parts[i].sym = "*"
    THEN LET star_idx == CHOOSE i \in DOMAIN parts :
                            /\ parts[i].sym = "*"
                            /\ \A j \in 1..(i - 1) : parts[j].sym # "*"
         IN  IF star_idx + 1 <= Len(parts) THEN parts[star_idx + 1].val ELSE 0
    ELSE 0

\* calculate_discriminative_power, lines 200-210: the quotient
\* (d1 * d2) / total_graphs ** 2 as <<numerator, denominator>>.
calculate_discriminative_power(support, total) ==
    LET d1 == support
        d2 == total - support
    IN  IF total = 0 THEN <<0, 1>> ELSE <<d1 * d2, total * total>>

\* The hard filter with the window's end points excluded.
PassesHardFilterOpen(pattern, total) ==
    /\ ~(num_edges(pattern.graph) < MIN_EDGES)
    /\ ~(pattern.support * 100 <= MINM_SUPPPORT_THRESHOLD_PCT * total)
    /\ ~(pattern.support * 100 >= MAXM_SUPPORT_THRESHOLD_PCT * total)

\* Lines 493-502.  support_ratio = support / total_graphs is the double
\* nearest the quotient and 0.05, 0.80 are the doubles nearest 1/20, 4/5;
\* rounding is monotone and, for integers far below 2^50, no other quotient
\* rounds to those two doubles, so the float comparisons decide as the
\* exact ones do.
PassesHardFilter(pattern, total) ==
    /\ ~(num_edges(pattern.graph) < MIN_EDGES)
    /\ ~(pattern.support * 100 < MINM_SUPPPORT_THRESHOLD_PCT * total)
    /\ ~(pattern.support * 100 > MAXM_SUPPORT_THRESHOLD_PCT * total)

\* Lines 492-508: the filter loop from pattern i on.  `heap` is the
\* caller's list of pattern objects; a passing pattern is scored in place
\* and its position appended to candidates.
RECURSIVE FilterFrom(_, _, _, _)
FilterFrom(heap, total, i, cands) ==
    IF i > Len(heap) THEN [heap |-> heap, candidates |-> cands]
    ELSE IF PassesHardFilter(heap[i], total)
         THEN FilterFrom(
                [heap EXCEPT ![i].discriminative_score =
                    calculate_discriminative_power(heap[i].support, total)],
                total, i + 1, Append(cands, i))
         ELSE FilterFrom(heap, total, i + 1, cands)

\* Python compares the key tuples (discriminative_score, num_edges).
ScoreLess(a, b) == a[1] * b[2] < b[1] * a[2]

\* The sort key without its second component.
KeyLessScoreOnly(p, q) ==
    ScoreLess(p.discriminative_score, q.discriminative_score)

KeyLess(p, q) ==
    \/ ScoreLess(p.discriminative_score, q.discriminative_score)
    \/ /\ ~ScoreLess(q.discriminative_score, p.discriminative_score)
       /\ num_edges(p.graph) < num_edges(q.graph)

\* list.sort(key=..., reverse=True) is stable: x goes after every entry
\* whose key is not smaller than its own.
RECURSIVE InsertDescending(_, _, _)
InsertDescending(heap, s, x) ==
    IF s = <<>> THEN <<x>>
    ELSE IF KeyLess(heap[Head(s)], heap[x])
         THEN <<x>> \o s
         ELSE <<Head(s)>> \o InsertDescending(heap, Tail(s), x)

RECURSIVE SortDescendingFrom(_, _, _, _)
SortDescendingFrom(heap, s, i, acc) ==
    IF i > Len(s) THEN acc
    ELSE SortDescendingFrom(heap, s, i + 1, InsertDescending(heap, acc, s[i]))

SortDescending(heap, s) == SortDescendingFrom(heap, s, 1, <<>>)

Deref(heap, refs) == [i \in DOMAIN refs |-> heap[refs[i]]]

\* The selection with lines 512-516 left out: an empty candidate list stays
\* empty.
SelectWithoutFallback(pats, total, kk) ==
    LET f      == FilterFrom(pats, total, 1, <<>>)
        sorted == SortDescending(f.heap, f.candidates)
    IN  [patterns |-> f.heap,
         selected |-> Deref(f.heap, SubSeq(sorted, 1, Min2(kk, Len(sorted)))),
         fallback |-> FALSE]

\* select_discriminative_subgraphs, lines 481-527.  When the filter leaves
\* nothing, `candidates = patterns` is the caller's list itself: all its
\* patterns are scored and the sort reorders that list in place.
select_discriminative_subgraphs(pats, total, kk) ==
    LET f        == FilterFrom(pats, total, 1, <<>>)
        fallback == Len(f.candidates) = 0
        heap     == IF fallback
                    THEN [i \in DOMAIN pats |->
                            [pats[i] EXCEPT !.discriminative_score =
                                calculate_discriminative_power(
                                    pats[i].support, total)]]
                    ELSE f.heap
        cands    == IF fallback THEN [i \in DOMAIN pats |-> i]
                                ELSE f.candidates
        sorted   == SortDescending(heap, cands)
    IN  [patterns |-> IF fallback THEN Deref(heap, sorted) ELSE heap,
         selected |-> Deref(heap, SubSeq(sorted, 1, Min2(kk, Len(sorted)))),
         fallback |-> fallback]

\* Supports chosen around the filter window and the score's peak for a
\* database of `total` graphs: none, the window's lower end, half, the
\* window's upper end, just above it, and more than there are graphs.
SupportChoices(total) ==
    {0, total \div 20, total \div 2, (4 * total) \div 5,
     (4 * total) \div 5 + 1, total + 1}

\* Pattern bodies with 1, 2 and 3 edges.
SelShapes ==
    { <<<<0, 0>>,    <<<<0, 1, 0>>>>>>,
      <<<<0, 0, 0>>, <<<<0, 1, 0>>, <<1, 2, 0>>>>>>,
      <<<<0, 0, 0>>, <<<<0, 1, 0>>, <<1, 2, 0>>, <<2, 0, 0>>>>>> }

\* Patterns as parse_gspan_output builds them (lines 113-114) from headers
\* `t # <id> * <support>`: ids 0, 1, ... and an empty graph_ids set.
ParsedPatterns(shapes, supports) ==
    [i \in DOMAIN shapes |->
        SubgraphPattern(i - 1, MkGraph(i - 1, shapes[i][1], shapes[i][2]),
                        HeaderSupport(<<Word("t"), Word("#"), Numeral(i - 1),
                                        Word("*"), Numeral(supports[i])>>),
                        {})]

InitSelect ==
    /\ lines = <<>> /\ miner = NoMiner /\ success = FALSE
    /\ results = <<>> /\ mined_by = "none" /\ saved = NotSaved
    /\ pc = "select_mined"
    /\ total_graphs \in {5, 20}
    /\ k \in {2, K}
    /\ \E n \in 0..MaxSelPatterns :
          \E shapes \in [1..n -> SelShapes] :
             \E supports \in [1..n -> SupportChoices(total_graphs)] :
                patterns = ParsedPatterns(shapes, supports)
    /\ selected = <<>>
    /\ graphs = <<>> /\ unique_graphs = <<>> /\ unique_again = <<>>
    /\ query_graphs = <<>>
    /\ db_features = EmptyMatrix /\ query_features = EmptyMatrix
    /\ candidates = NoValue /\ scanned = 0 /\ min_support_pct = 0

\* identify_discriminative.main, line 636.
Select ==
    /\ pc = "select_mined"
    /\ LET r == select_discriminative_subgraphs(patterns, total_graphs, k)
       IN  /\ patterns' = r.patterns
           /\ selected' = r.selected
    /\ pc' = "select_done"
    /\ UNCHANGED <<lines, miner, success, results, mined_by, saved>>
    /\ UNCHANGED <<graphs, unique_graphs, unique_again, query_graphs,
                   db_features, query_features, candidates, scanned,
                   total_graphs, k, min_support_pct>>

NextSelect == Select

SpecSelect == InitSelect /\ [][NextSelect]_vars

\* C9: every score computed for a pattern lies in [0, 0.25], and is 0.25
\* exactly when the pattern's support is half the number of graphs.
C9_ScoreRange ==
    pc = "select_done" =>
        \A i \in DOMAIN selected :
            LET s == selected[i].discriminative_score
            IN  /\ 0 <= 4 * s[1]
                /\ 4 * s[1] <= s[2]
                /\ (4 * s[1] = s[2]) <=> (2 * selected[i].support = total_graphs)

\* The pattern has at least 2 edges and its support ratio lies in the
\* closed window [0.05, 0.80].
InWindow(p) ==
    /\ Len(p.graph.edges) >= 2
    /\ 20 * p.support >= total_graphs
    /\ 5 * p.support <= 4 * total_graphs

OnBoundary(p) ==
    20 * p.support = total_graphs \/ 5 * p.support = 4 * total_graphs

\* C10: when some input pattern passes the hard filter, every returned
\* pattern has at least 2 edges and a support ratio in [0.05, 0.80]; a
\* pattern exactly on a boundary of the window is not filtered out (it is
\* returned whenever k does not cut the list of passing patterns).
C10_HardFilter ==
    (pc = "select_done" /\ \E i \in DOMAIN patterns : InWindow(patterns[i])) =>
        /\ \A i \in DOMAIN selected : InWindow(selected[i])
        /\ Cardinality({i \in DOMAIN patterns : InWindow(patterns[i])}) <= k =>
              \A i \in DOMAIN patterns :
                  (InWindow(patterns[i]) /\ OnBoundary(patterns[i])) =>
                      \E j \in DOMAIN selected : selected[j].id = patterns[i].id

\* Patterns on the lower boundary (1 of 20), on the upper boundary (16 of
\* 20) and outside the window (17 of 20) were given; the two on the
\* boundaries are returned.
C10_Witness ==
    /\ pc = "select_done"
    /\ total_graphs = 20
    /\ Len(patterns) = 3
    /\ {patterns[i].support : i \in DOMAIN patterns} = {1, 16, 17}
    /\ \A i \in DOMAIN patterns : Len(patterns[i].graph.edges) >= 2
    /\ {selected[i].support : i \in DOMAIN selected} = {1, 16}

(***************************************************************************)
(* identify_discriminative.mine_frequent_subgraphs_simple, lines 213-478.  *)
(* Every motif class fills a defaultdict(set) (key -> ids of the graphs    *)
(* with an occurrence), which keeps its keys in first-insertion order, and *)
(* then emits one pattern per key whose set is large enough.               *)
(***************************************************************************)
GSPAN_SUPPORT_THRESHOLD == 5           \* line 16: 5.0 (percent)

MaxMineGraphs == 3

\* The values of s in the order of their first occurrence: the key order
\* of a dict whose keys are stored in the order of s.
FirstSeen(s) ==
    LET first == {i \in DOMAIN s : \A j \in 1..(i - 1) : s[j] # s[i]}
    IN  <<>> \o [r \in 1..Cardinality(first) |->
                    s[CHOOSE i \in first :
                          Cardinality({j \in first : j < i}) = r - 1]]

\* Graph.G, graph_parser lines 18-26: add_node and add_edge keep a networkx
\* graph beside the dict and the list.  For a graph whose nodes are all
\* added before its edges (the dataset format, and every graph built here)
\* it is the graph graph_to_networkx builds: the nodes in the order first
\* mentioned, each node's neighbours in the order its edges were added, and
\* for a pair of nodes the label of the last edge added between them.
GraphG(graph) ==
    LET es    == graph.edges
        ends  == [x \in 1..(2 * Len(es)) |->
                     es[(x + 1) \div 2][IF x % 2 = 1 THEN 1 ELSE 2]]
        nodes == FirstSeen([i \in DOMAIN graph.nodes |-> graph.nodes[i][1]]
                           \o ends)
        Neighbours(n) ==
            LET at == SelectSeq(es, LAMBDA e : e[1] = n \/ e[2] = n)
            IN  FirstSeen([i \in DOMAIN at |->
                              IF at[i][1] = n THEN at[i][2] ELSE at[i][1]])
        Last(u, v) ==
            CHOOSE i \in DOMAIN es :
                /\ {es[i][1], es[i][2]} = {u, v}
                /\ \A j \in (i + 1)..Len(es) : {es[j][1], es[j][2]} # {u, v}
    IN  [nodes  |-> nodes,
         label  |-> [n \in Range(nodes) |->
                        IF n \in NodeIds(graph) THEN NodeLabel(graph, n)
                                                ELSE NoLabel],
         adj    |-> [n \in Range(nodes) |-> Neighbours(n)],
         elabel |-> [p \in {<<es[i][1], es[i][2]>> : i \in DOMAIN es}
                           \cup {<<es[i][2], es[i][1]>> : i \in DOMAIN es} |->
                        es[Last(p[1], p[2])][3]]]

RECURSIVE Flatten(_)
Flatten(ss) == IF ss = <<>> THEN <<>> ELSE Head(ss) \o Flatten(Tail(ss))

\* The adds with the position of the graph in the scan in place of graph.id.
AddsByPosition(gs, found) ==
    Flatten([i \in DOMAIN gs |->
                LET keys == found[i]
                IN  [x \in DOMAIN keys |-> <<keys[x], i - 1>>]])

\* for graph in graphs: for every key the class finds in graph, in the
\* order it finds them: support[key].add(graph.id).  The adds in order, as
\* pairs <<key, graph.id>>; found[i] lists the keys found in graph i.
Adds(gs, found) ==
    Flatten([i \in DOMAIN gs |->
                LET keys == found[i]
                IN  [x \in DOMAIN keys |-> <<keys[x], gs[i].id>>]])

\* The defaultdict(set) after those adds: its keys in first-insertion
\* order, and under each key the set of the ids added with it.
Tally(gs, found) ==
    LET adds  == Adds(gs, found)
        first == {i \in DOMAIN adds :
                     \A j \in 1..(i - 1) : adds[j][1] # adds[i][1]}
        keys  == [r \in 1..Cardinality(first) |->
                     adds[CHOOSE i \in first :
                              Cardinality({j \in first : j < i}) = r - 1][1]]
    IN  [keys |-> keys,
         ids  |-> [key \in Range(keys) |->
                      {adds[i][2] : i \in {x \in DOMAIN adds :
                                              adds[x][1] = key}}]]

\* The single-edge class keyed by the label of the edge's source node.
EdgeKeysSource(graph) ==
    [i \in DOMAIN graph.edges |-> NodeLabel(graph, graph.edges[i][1])]

\* 1. Lines 235-237: the label of every edge triple.
EdgeKeys(graph) == [i \in DOMAIN graph.edges |-> graph.edges[i][3]]

\* 2. Lines 256-258: the label of every node.
NodeKeys(graph) == [i \in DOMAIN graph.nodes |-> graph.nodes[i][2]]

\* 2b. Lines 274-280: (source label, edge label), then (target label, edge
\* label), for every edge triple.
NodeEdgeKeys(graph) ==
    Flatten([i \in DOMAIN graph.edges |->
        LET e == graph.edges[i]
        IN  << <<NodeLabel(graph, e[1]), e[3]>>,
               <<NodeLabel(graph, e[2]), e[3]>> >>])

\* The key with the two ends compared by their node labels only.
Path2KeyByEndLabel(graph, G, n1, node, n2) ==
    LET n1_label   == NodeLabel(graph, n1)
        node_label == NodeLabel(graph, node)
        n2_label   == NodeLabel(graph, n2)
        e1_label   == G.elabel[<<n1, node>>]
        e2_label   == G.elabel[<<node, n2>>]
    IN  IF n2_label < n1_label
        THEN <<n2_label, e2_label, node_label, e1_label, n1_label>>
        ELSE <<n1_label, e1_label, node_label, e2_label, n2_label>>

\* Lines 305-315: the canonical key of the path n1 - node - n2.
Path2Key(graph, G, n1, node, n2) ==
    LET n1_label   == NodeLabel(graph, n1)
        node_label == NodeLabel(graph, node)
        n2_label   == NodeLabel(graph, n2)
        e1_label   == G.elabel[<<n1, node>>]
        e2_label   == G.elabel[<<node, n2>>]
    IN  IF TupleLess(<<n2_label, e2_label>>, <<n1_label, e1_label>>)
        THEN <<n2_label, e2_label, node_label, e1_label, n1_label>>
        ELSE <<n1_label, e1_label, node_label, e2_label, n2_label>>

\* for i, n1 in enumerate(neighbors): for n2 in neighbors[i+1:]: the pairs
\* of neighbours of G's node number ni, in loop order.
NeighbourPairs(G, ni) ==
    LET nb == G.adj[G.nodes[ni]]
    IN  Flatten([i \in DOMAIN nb |->
            [jj \in 1..(Len(nb) - i) |-> <<nb[i], nb[i + jj]>>]])

\* 3. Lines 298-317.
Path2Keys(graph) ==
    LET G == GraphG(graph)
    IN  Flatten([ni \in DOMAIN G.nodes |->
            LET pairs == NeighbourPairs(G, ni)
            IN  [x \in DOMAIN pairs |->
                    Path2Key(graph, G, pairs[x][1], G.nodes[ni], pairs[x][2])]])

\* Lines 347-351: sorted([node-label triple, edge-label triple]) as a tuple.
TriangleKey(graph, G, node, n1, n2) ==
    Sorted(<< <<NodeLabel(graph, node), NodeLabel(graph, n1),
                NodeLabel(graph, n2)>>,
              <<G.elabel[<<node, n1>>], G.elabel[<<n1, n2>>],
                G.elabel[<<n2, node>>]>> >>)

\* 4. Lines 338-352.
TriangleKeys(graph) ==
    LET G == GraphG(graph)
    IN  Flatten([ni \in DOMAIN G.nodes |->
            LET pairs == NeighbourPairs(G, ni)
            IN  Flatten([x \in DOMAIN pairs |->
                    IF has_edge(G, pairs[x][1], pairs[x][2])
                    THEN <<TriangleKey(graph, G, G.nodes[ni],
                                       pairs[x][1], pairs[x][2])>>
                    ELSE <<>>])])

\* 5. Lines 375-393: node - n1 - n2 - n3 with n2 # node, n3 # n1, n3 # node.
Path3Keys(graph) ==
    LET G == GraphG(graph)
    IN  Flatten([ni \in DOMAIN G.nodes |->
          LET node == G.nodes[ni]
              nb0  == G.adj[node]
          IN  Flatten([a \in DOMAIN nb0 |->
                LET n1  == nb0[a]
                    nb1 == G.adj[n1]
                IN  Flatten([b \in DOMAIN nb1 |->
                      LET n2  == nb1[b]
                          nb2 == G.adj[n2]
                      IN  IF n2 = node THEN <<>>
                          ELSE Flatten([c \in DOMAIN nb2 |->
                                 LET n3 == nb2[c]
                                 IN  IF n3 # n1 /\ n3 # node
                                     THEN << <<NodeLabel(graph, node),
                                               G.elabel[<<node, n1>>],
                                               NodeLabel(graph, n1),
                                               G.elabel[<<n1, n2>>],
                                               NodeLabel(graph, n2),
                                               G.elabel[<<n2, n3>>],
                                               NodeLabel(graph, n3)>> >>
                                     ELSE <<>>])])])])

\* 6. Lines 416-426: a node with 3 or more neighbours and its first three.
StarKeys(graph) ==
    LET G == GraphG(graph)
    IN  Flatten([ni \in DOMAIN G.nodes |->
          LET node == G.nodes[ni]
              nb   == G.adj[node]
          IN  IF Len(nb) >= 3
              THEN LET neighbor_labels ==
                          Sorted([i \in 1..3 |->
                                    <<NodeLabel(graph, nb[i]),
                                      G.elabel[<<node, nb[i]>>]>>])
                   IN  << <<NodeLabel(graph, node)>> \o neighbor_labels >>
              ELSE <<>>])

\* 7. Lines 446-458: node - n1 - n2 - n3 - node with n2 # node, n3 # n1;
\* every such cycle adds the same key ('square',).
SquareKeys(graph) ==
    LET G == GraphG(graph)
    IN  Flatten([ni \in DOMAIN G.nodes |->
          LET node == G.nodes[ni]
              nb0  == G.adj[node]
          IN  Flatten([a \in DOMAIN nb0 |->
                LET n1  == nb0[a]
                    nb1 == G.adj[n1]
                IN  Flatten([b \in DOMAIN nb1 |->
                      LET n2 == nb1[b]
                      IN  IF n2 # node /\
                             \E c \in DOMAIN G.adj[n2] :
                                 /\ G.adj[n2][c] # n1
                                 /\ has_edge(G, G.adj[n2][c], node)
                          THEN << <<"square">> >>
                          ELSE <<>>])])])

\* The bodies the emission loops build, as <<node labels, edge triples>>;
\* node i of a body is the (i+1)-th label.
EdgeBody(edge_label) == << <<0, 0>>, << <<0, 1, edge_label>> >> >>

NodeBody(node_label) == << <<node_label>>, <<>> >>

NodeEdgeBody(key) == << <<key[1], 0>>, << <<0, 1, key[2]>> >> >>

Path2Body(path_sig) ==
    << <<path_sig[1], path_sig[3], path_sig[5]>>,
       << <<0, 1, path_sig[2]>>, <<1, 2, path_sig[4]>> >> >>

\* Lines 357-364: the same body for every triangle key.
TriangleBody(tri_sig) ==
    << <<0, 0, 0>>, << <<0, 1, 0>>, <<1, 2, 0>>, <<2, 0, 0>> >> >>

Path3Body(path_sig) ==
    << <<path_sig[1], path_sig[3], path_sig[5], path_sig[7]>>,
       << <<0, 1, path_sig[2]>>, <<1, 2, path_sig[4]>>,
          <<2, 3, path_sig[6]>> >> >>

StarBody(star_sig) ==
    << <<star_sig[1], star_sig[2][1], star_sig[3][1], star_sig[4][1]>>,
       [i \in 1..3 |-> <<0, i, star_sig[i + 1][2]>>] >>

SquareBody(square_sig) ==
    << <<0, 0, 0, 0>>,
       << <<0, 1, 0>>, <<1, 2, 0>>, <<2, 3, 0>>, <<3, 0, 0>> >> >>

\* The emission with pattern_id counted from 0 again in every class.
EmitNumberedPerClass(pats, dct, bodies, min_support_count) ==
    LET kept == SelectSeq([i \in DOMAIN dct.keys |-> i],
                    LAMBDA i : Cardinality(dct.ids[dct.keys[i]])
                                   >= min_support_count)
    IN  pats \o [r \in DOMAIN kept |->
                    LET graph_ids  == dct.ids[dct.keys[kept[r]]]
                        pattern_id == r - 1
                        body       == bodies[kept[r]]
                        g          == MkGraph(pattern_id, body[1], body[2])
                    IN  SubgraphPattern(pattern_id, g, Cardinality(graph_ids),
                                        graph_ids)]

\* for key, graph_ids in support.items(): if len(graph_ids) >=
\* min_support_count: append SubgraphPattern(pattern_id, g, len(graph_ids),
\* graph_ids) and add one to pattern_id, which therefore is len(patterns)
\* at every append.  bodies[i] is the body built for the i-th key.
Emit(pats, dct, bodies, min_support_count) ==
    LET kept == SelectSeq([i \in DOMAIN dct.keys |-> i],
                    LAMBDA i : Cardinality(dct.ids[dct.keys[i]])
                                   >= min_support_count)
    IN  pats \o [r \in DOMAIN kept |->
                    LET graph_ids  == dct.ids[dct.keys[kept[r]]]
                        pattern_id == Len(pats) + r - 1
                        body       == bodies[kept[r]]
                        g          == MkGraph(pattern_id, body[1], body[2])
                    IN  SubgraphPattern(pattern_id, g, Cardinality(graph_ids),
                                        graph_ids)]

\* Line 225: int(total_graphs * min_support_pct / 100), the percentage a
\* whole number.
MinSupportCount(total, pct) == (total * pct) \div 100

mine_frequent_subgraphs_simple(gs, pct) ==
    LET min_support_count == MinSupportCount(Len(gs), pct)
        edge_label_support == Tally(gs, [i \in DOMAIN gs |-> EdgeKeys(gs[i])])
        node_label_support == Tally(gs, [i \in DOMAIN gs |-> NodeKeys(gs[i])])
        node_edge_support  == Tally(gs, [i \in DOMAIN gs |-> NodeEdgeKeys(gs[i])])
        path2_support      == Tally(gs, [i \in DOMAIN gs |-> Path2Keys(gs[i])])
        triangle_support   == Tally(gs, [i \in DOMAIN gs |-> TriangleKeys(gs[i])])
        path3_support      == Tally(gs, [i \in DOMAIN gs |-> Path3Keys(gs[i])])
        star_support       == Tally(gs, [i \in DOMAIN gs |-> StarKeys(gs[i])])
        square_support     == Tally(gs, [i \in DOMAIN gs |-> SquareKeys(gs[i])])
        p1 == Emit(<<>>, edge_label_support,
                   [i \in DOMAIN edge_label_support.keys |->
                       EdgeBody(edge_label_support.keys[i])],
                   min_support_count)
        p2 == Emit(p1, node_label_support,
                   [i \in DOMAIN node_label_support.keys |->
                       NodeBody(node_label_support.keys[i])],
                   min_support_count)
        p2b == Emit(p2, node_edge_support,
                   [i \in DOMAIN node_edge_support.keys |->
                       NodeEdgeBody(node_edge_support.keys[i])],
                   min_support_count)
        p3 == Emit(p2b, path2_support,
                   [i \in DOMAIN path2_support.keys |->
                       Path2Body(path2_support.keys[i])],
                   min_support_count)
        p4 == Emit(p3, triangle_support,
                   [i \in DOMAIN triangle_support.keys |->
                       TriangleBody(triangle_support.keys[i])],
                   min_support_count)
        p5 == Emit(p4, path3_support,
                   [i \in DOMAIN path3_support.keys |->
                       Path3Body(path3_support.keys[i])],
                   min_support_count)
        p6 == Emit(p5, star_support,
                   [i \in DOMAIN star_support.keys |->
                       StarBody(star_support.keys[i])],
                   min_support_count)
    IN  Emit(p6, square_support,
             [i \in DOMAIN square_support.keys |->
                 SquareBody(square_support.keys[i])],
             min_support_count)

\* Databases for the miner, as main hands them over after remove_duplicates:
\* graphs 0, 1, ... of pairwise different shapes among these.  Three single
\* edges labelled 7 (between nodes labelled 0 and 0, 1 and 1, 0 and 1), a
\* 2-path, a 2-path whose ends carry one label and whose edges carry the
\* labels 2 and 1, a triangle labelled 1 throughout written with two edge orders, a
\* triangle with one node labelled 1, and a 4-cycle with a chord (it holds
\* 2-paths, triangles, 3-paths, a star and a square).
MineShapes ==
    { << <<0, 0>>, << <<0, 1, 7>> >> >>,
      << <<1, 1>>, << <<0, 1, 7>> >> >>,
      << <<0, 1>>, << <<0, 1, 7>> >> >>,
      << <<0, 0, 0>>, << <<0, 1, 0>>, <<1, 2, 0>> >> >>,
      << <<0, 1, 0>>, << <<0, 1, 2>>, <<1, 2, 1>> >> >>,
      << <<1, 1, 1>>, << <<0, 1, 1>>, <<1, 2, 1>>, <<2, 0, 1>> >> >>,
      << <<1, 1, 1>>, << <<1, 2, 1>>, <<0, 2, 1>>, <<0, 1, 1>> >> >>,
      << <<0, 0, 1>>, << <<0, 1, 0>>, <<1, 2, 0>>, <<2, 0, 0>> >> >>,
      << <<0, 0, 0, 0>>, << <<0, 1, 0>>, <<1, 2, 0>>, <<2, 3, 0>>,
                            <<3, 0, 0>>, <<0, 2, 0>> >> >> }

\* Minimum supports in percent: the default, a half, and all graphs.
MinePcts == {GSPAN_SUPPORT_THRESHOLD, 50, 100}

InitMine ==
    /\ lines = <<>> /\ miner = NoMiner /\ success = FALSE
    /\ results = <<>> /\ mined_by = "none" /\ saved = NotSaved
    /\ pc = "mine_loaded"
    /\ \E ss \in SeqsUpTo(MineShapes, MaxMineGraphs) :
          /\ \A i, j \in DOMAIN ss : i # j => ss[i] # ss[j]
          /\ graphs = GraphList(ss)
    /\ min_support_pct \in MinePcts
    /\ patterns = <<>>
    /\ unique_graphs = <<>> /\ unique_again = <<>> /\ query_graphs = <<>>
    /\ db_features = EmptyMatrix /\ query_features = EmptyMatrix
    /\ candidates = NoValue /\ scanned = 0
    /\ total_graphs = 0 /\ k = 0 /\ selected = <<>>

\* patterns = mine_frequent_subgraphs_simple(graphs, min_support_pct)
Mine ==
    /\ pc = "mine_loaded"
    /\ patterns' = mine_frequent_subgraphs_simple(graphs, min_support_pct)
    /\ pc' = "mine_done"
    /\ UNCHANGED <<lines, miner, success, results, mined_by, saved>>
    /\ UNCHANGED <<graphs, unique_graphs, unique_again, query_graphs,
                   db_features, query_features, candidates, scanned,
                   total_graphs, k, selected, min_support_pct>>

NextMine == Mine

SpecMine == InitMine /\ [][NextMine]_vars

\* The body g without its i-th edge and without an end of that edge that no
\* other edge touches.
WithoutEdge(g, i) ==
    LET es   == [j \in 1..(Len(g.edges) - 1) |->
                    IF j < i THEN g.edges[j] ELSE g.edges[j + 1]]
        gone == {n \in {g.edges[i][1], g.edges[i][2]} :
                    \A j \in DOMAIN es : es[j][1] # n /\ es[j][2] # n}
    IN  [g EXCEPT !.edges = es,
                  !.nodes = SelectSeq(g.nodes, LAMBDA nd : nd[1] \notin gone)]

\* Label-preserving isomorphism of two bodies.
Isomorphic(g, h) ==
    /\ Len(g.nodes) = Len(h.nodes)
    /\ Len(g.edges) = Len(h.edges)
    /\ \E m \in [NodeIds(g) -> NodeIds(h)] :
          /\ Injective(m)
          /\ \A n \in NodeIds(g) : NodeLabel(g, n) = NodeLabel(h, m[n])
          /\ {<<{m[g.edges[j][1]], m[g.edges[j][2]]}, g.edges[j][3]>> :
                    j \in DOMAIN g.edges}
             = {<<{h.edges[j][1], h.edges[j][2]}, h.edges[j][3]>> :
                    j \in DOMAIN h.edges}

\* C6: whenever the miner has emitted two patterns P and P' such that the
\* body of P' is the body of P with one edge removed (a node left isolated
\* dropped, up to label-preserving isomorphism), the support of P' is at
\* least the support of P.
C6_SupportMonotone ==
    pc = "mine_done" =>
        \A i, j \in DOMAIN patterns :
            (\E e \in DOMAIN patterns[i].graph.edges :
                Isomorphic(WithoutEdge(patterns[i].graph, e),
                           [patterns[j].graph EXCEPT
                               !.id = patterns[i].graph.id]))
                => patterns[j].support >= patterns[i].support

(***************************************************************************)
(* Further properties of select_discriminative_subgraphs.                  *)
(***************************************************************************)
\* The candidates of the call that has run, as positions of `patterns`:
\* the patterns inside the window, or every pattern when there is none.
CandidateSet ==
    IF \E i \in DOMAIN patterns : InWindow(patterns[i])
    THEN {i \in DOMAIN patterns : InWindow(patterns[i])}
    ELSE DOMAIN patterns

\* (score, edge count) of p is at least that of q, the scores compared as
\* exact quotients.
PairAtLeast(p, q) ==
    LET a == p.discriminative_score
        b == q.discriminative_score
    IN  \/ a[1] * b[2] > b[1] * a[2]
        \/ /\ a[1] * b[2] = b[1] * a[2]
           /\ Len(p.graph.edges) >= Len(q.graph.edges)

\* C11: the returned list holds min(k, number of candidates) candidates, is
\* non-increasing in (discriminative score, edge count), and each returned
\* pattern's pair is at least the pair of every candidate not returned.
C11_RankedPrefix ==
    pc = "select_done" =>
        /\ Len(selected) = Min2(k, Cardinality(CandidateSet))
        /\ \A j \in DOMAIN selected :
              \E i \in CandidateSet : selected[j] = patterns[i]
        /\ \A j \in 1..(Len(selected) - 1) :
              PairAtLeast(selected[j], selected[j + 1])
        /\ \A j \in DOMAIN selected : \A i \in CandidateSet :
              (\A h \in DOMAIN selected : selected[h].id # patterns[i].id)
                  => PairAtLeast(selected[j], patterns[i])

\* Three candidates for k = 2: two of support 10 of 20 (score 0.25), given
\* with the 2-edge one first, and one of support 1; the 3-edge pattern is
\* returned first, the 2-edge one second, the third is cut.
C11_Witness ==
    /\ pc = "select_done"
    /\ k = 2 /\ total_graphs = 20
    /\ Len(patterns) = 3
    /\ \A i \in DOMAIN patterns : InWindow(patterns[i])
    /\ patterns[1].support = 10 /\ Len(patterns[1].graph.edges) = 2
    /\ patterns[2].support = 10 /\ Len(patterns[2].graph.edges) = 3
    /\ patterns[3].support = 1
    /\ selected = <<patterns[2], patterns[1]>>

\* C12: for a non-empty pattern list, k >= 1 and total_graphs > 0 the
\* returned index is not empty; when no pattern passes the hard filter,
\* every input pattern is scored and the first min(k, number of patterns)
\* of the whole list, ranked by (score, edge count), are returned.
C12_FallbackNonEmpty ==
    (pc = "select_done" /\ patterns # <<>> /\ k >= 1 /\ total_graphs > 0) =>
        /\ selected # <<>>
        /\ (\A i \in DOMAIN patterns : ~InWindow(patterns[i])) =>
              /\ Len(selected) = Min2(k, Len(patterns))
              /\ \A i \in DOMAIN patterns :
                    LET sc == patterns[i].discriminative_score
                    IN  sc[1] * total_graphs * total_graphs
                          = patterns[i].support
                              * (total_graphs - patterns[i].support) * sc[2]
              /\ \A j \in DOMAIN selected :
                    /\ \E i \in DOMAIN patterns : selected[j] = patterns[i]
                    /\ \A i \in DOMAIN patterns :
                          (\A h \in DOMAIN selected :
                               selected[h].id # patterns[i].id)
                              => PairAtLeast(selected[j], patterns[i])

\* Three patterns, none in the window (a single edge of support 10, and
\* supports 17 and 0 of 20), k = 2: two of them are returned, the one of
\* support 10 first.
C12_Witness ==
    /\ pc = "select_done"
    /\ k = 2 /\ total_graphs = 20
    /\ Len(patterns) = 3
    /\ \A i \in DOMAIN patterns : ~InWindow(patterns[i])
    /\ {patterns[i].support : i \in DOMAIN patterns} = {0, 10, 17}
    /\ Len(selected) = 2
    /\ selected[1].support = 10 /\ selected[2].support = 17

(***************************************************************************)
(* Further properties of mine_frequent_subgraphs_simple.                   *)
(***************************************************************************)
\* The ids of the graphs with at least one edge labelled L.
GraphsWithEdgeLabel(L) ==
    {graphs[i].id : i \in {x \in DOMAIN graphs :
                              \E e \in DOMAIN graphs[x].edges :
                                  graphs[x].edges[e][3] = L}}

EdgeLabels ==
    UNION {{graphs[i].edges[e][3] : e \in DOMAIN graphs[i].edges} :
              i \in DOMAIN graphs}

\* C13: for every edge label L whose number of graphs reaches the minimum
\* support count, a single-edge pattern labelled L is emitted whose support
\* is the number of distinct graphs with an edge labelled L and whose
\* graph_ids are those graphs; so n one-edge graphs labelled L, mined at the
\* full-database threshold, give the single-edge pattern support n.
C13_SingleEdgeSupport ==
    pc = "mine_done" =>
        \A L \in EdgeLabels :
            Cardinality(GraphsWithEdgeLabel(L))
                    >= MinSupportCount(Len(graphs), min_support_pct) =>
                \E i \in DOMAIN patterns :
                    /\ patterns[i].graph.nodes = << <<0, 0>>, <<1, 0>> >>
                    /\ patterns[i].graph.edges = << <<0, 1, L>> >>
                    /\ patterns[i].support = Cardinality(GraphsWithEdgeLabel(L))
                    /\ patterns[i].graph_ids = GraphsWithEdgeLabel(L)
                    /\ \A j \in 1..(i - 1) : Len(patterns[j].graph.edges) = 1

\* Three graphs of one edge labelled 7 each, mined at 100 percent: the
\* first pattern is the single edge labelled 7 with support 3.
C13_Witness ==
    /\ pc = "mine_done"
    /\ min_support_pct = 100
    /\ Len(graphs) = 3
    /\ \A i \in DOMAIN graphs :
          Len(graphs[i].edges) = 1 /\ graphs[i].edges[1][3] = 7
    /\ patterns[1].graph.edges = << <<0, 1, 7>> >>
    /\ patterns[1].support = 3

\* C14: every emitted pattern has support >= min_support_fraction * |graphs|
\* with the product taken exactly (here in percent: 100 * support >=
\* min_support_pct * |graphs|); nothing below the product is emitted.
C14_ExactThreshold ==
    pc = "mine_done" =>
        \A i \in DOMAIN patterns :
            100 * patterns[i].support >= min_support_pct * Len(graphs)

\* C17: for every emitted pattern, graph_ids is exactly the set of ids of
\* the database graphs that contain the pattern's body according to
\* is_subgraph_isomorphic, and support is the size of that set.
C17_GraphIdsAreContainment ==
    pc = "mine_done" =>
        \A i \in DOMAIN patterns :
            LET containing ==
                    {graphs[x].id : x \in {y \in DOMAIN graphs :
                        is_subgraph_isomorphic(patterns[i].graph, graphs[y])}}
            IN  /\ patterns[i].graph_ids = containing
                /\ patterns[i].support = Cardinality(containing)

\* g is one triangle: three nodes, and three edges joining the three pairs.
IsTriangle(g) ==
    /\ Len(g.nodes) = 3
    /\ Len(g.edges) = 3
    /\ {{g.edges[e][1], g.edges[e][2]} : e \in DOMAIN g.edges}
         = {{a, b} : a, b \in NodeIds(g)} \ {{a} : a \in NodeIds(g)}

\* C18: the keys do not depend on how a graph is written down and one
\* labelled motif is counted under one key: a database whose graphs all are
\* the same labelled triangle (written with whatever node numbering and
\* edge order) yields exactly one triangle pattern, supported by all of them.
C18_OneKeyPerMotif ==
    (/\ pc = "mine_done"
     /\ graphs # <<>>
     /\ \A i \in DOMAIN graphs : IsTriangle(graphs[i])
     /\ \A i, j \in DOMAIN graphs : Isomorphic(graphs[i], graphs[j])) =>
        LET triangles == {i \in DOMAIN patterns :
                             /\ Len(patterns[i].graph.nodes) = 3
                             /\ Len(patterns[i].graph.edges) = 3}
        IN  /\ Cardinality(triangles) = 1
            /\ \A i \in triangles : patterns[i].support = Len(graphs)

(***************************************************************************)
(* Further properties of generate_candidates and of the stages' inputs.    *)
(***************************************************************************)
\* C20: every candidate list returned is strictly increasing in database
\* row index, hence without duplicates, for every query.
C20_CandidatesIncreasing ==
    pc = "cand_done" =>
        \A q \in DOMAIN candidates :
            \A a, b \in DOMAIN candidates[q] :
                a < b => candidates[q][a] < candidates[q][b]

\* Two equal database rows both dominate the query row: rows 0 and 1 are
\* returned, in that order.
C20_Witness ==
    /\ pc = "cand_done"
    /\ db_features.rows = <<<<1, 1>>, <<1, 1>>>>
    /\ query_features.rows = <<<<0, 1>>>>
    /\ candidates = <<<<0, 1>>>>

\* C19: no stage mutates its inputs; remove_duplicates leaves the graphs it
\* was given (their ids included) as they were.
C19_InputsNotMutated ==
    [][pc = "dedup_parsed" => graphs' = graphs]_vars

(***************************************************************************)
(* graph_parser.parse_graph_dataset.  A line of the file is the sequence   *)
(* of its tokens after strip() and split(); a blank line has none.         *)
(***************************************************************************)
MaxLines == 4

\* int(token): the value of a numeral, ValueError for any other text.
IntOf(parts, i) ==
    IF i > Len(parts) THEN "IndexError"
    ELSE IF parts[i].sym # "numeral" THEN "ValueError"
    ELSE "ok"

\* The first failure among int(parts[1]), ..., int(parts[n]) in the order
\* the code evaluates them (0-based positions 1..n), or "ok".
FieldsError(parts, n) ==
    IF \E i \in 2..(n + 1) : IntOf(parts, i) # "ok"
    THEN IntOf(parts, CHOOSE i \in 2..(n + 1) :
                        /\ IntOf(parts, i) # "ok"
                        /\ \A j \in 2..(i - 1) : IntOf(parts, j) = "ok")
    ELSE "ok"

\* Lines 53-81, one line of the file.  st holds the locals graphs,
\* current_graph (a sequence of at most one graph, empty for None) and
\* graph_id, and the exception raised so far.
ParseLine(st, parts) ==
    IF parts = <<>> THEN st
    ELSE IF parts[1].sym = "#"
    THEN [st EXCEPT !.graphs = st.graphs \o st.current_graph,
                    !.current_graph = <<Graph(st.graph_id)>>,
                    !.graph_id = st.graph_id + 1]
    ELSE IF parts[1].sym = "v"
    THEN IF FieldsError(parts, 2) # "ok"
         THEN [st EXCEPT !.error = FieldsError(parts, 2)]
         ELSE IF st.current_graph = <<>>
         THEN [st EXCEPT !.error = "AttributeError"]
         ELSE [st EXCEPT !.current_graph =
                 <<add_node(st.current_graph[1], parts[2].val, parts[3].val)>>]
    ELSE IF parts[1].sym = "e"
    THEN IF FieldsError(parts, 3) # "ok"
         THEN [st EXCEPT !.error = FieldsError(parts, 3)]
         ELSE IF st.current_graph = <<>>
         THEN [st EXCEPT !.error = "AttributeError"]
         ELSE [st EXCEPT !.current_graph =
                 <<add_edge(st.current_graph[1], parts[2].val, parts[3].val,
                            parts[4].val)>>]
    ELSE st

RECURSIVE ParseFrom(_, _, _)
ParseFrom(st, file, i) ==
    IF i > Len(file) \/ st.error # "none" THEN st
    ELSE ParseFrom(ParseLine(st, file[i]), file, i + 1)

\* parse_graph_dataset, lines 38-87: the graphs returned, or the exception
\* that leaves the function.
parse_graph_dataset(file) ==
    LET st == ParseFrom([graphs |-> <<>>, current_graph |-> <<>>,
                         graph_id |-> 0, error |-> "none"], file, 1)
    IN  [error  |-> st.error,
         graphs |-> IF st.error = "none"
                    THEN st.graphs \o st.current_graph ELSE <<>>]

\* Lines a dataset file is made of here: a graph marker, node and edge
\* lines, an edge to node 2 (never declared), a node line cut short, a node
\* line with a word for its label, an edge line with a fifth token, a line
\* of another kind, and a blank line.
ParseLines ==
    { <<Word("#"), Numeral(0)>>,
      <<Word("v"), Numeral(0), Numeral(0)>>,
      <<Word("v"), Numeral(1), Numeral(0)>>,
      <<Word("e"), Numeral(0), Numeral(1), Numeral(0)>>,
      <<Word("e"), Numeral(0), Numeral(2), Numeral(0)>>,
      <<Word("v"), Numeral(0)>>,
      <<Word("v"), Numeral(0), Word("C")>>,
      <<Word("e"), Numeral(0), Numeral(1), Numeral(0), Numeral(9)>>,
      <<Word("x"), Numeral(1)>>,
      <<>> }

InitParse ==
    /\ pc = "parse_open"
    /\ lines \in SeqsUpTo(ParseLines, MaxLines)
    /\ graphs = <<>> /\ unique_graphs = <<>> /\ unique_again = <<>>
    /\ query_graphs = <<>> /\ patterns = <<>> /\ selected = <<>>
    /\ db_features = EmptyMatrix /\ query_features = EmptyMatrix
    /\ candidates = NoValue /\ scanned = 0 /\ min_support_pct = 0
    /\ total_graphs = 0 /\ k = 0
    /\ miner = NoMiner /\ success = FALSE
    /\ results = <<>> /\ mined_by = "none" /\ saved = NotSaved

\* graph_parser.py, line 130: the call of parse_graph_dataset.
Parse ==
    /\ pc = "parse_open"
    /\ LET r == parse_graph_dataset(lines)
       IN  /\ graphs' = r.graphs
           /\ pc' = IF r.error = "none" THEN "parse_done" ELSE "parse_raised"
    /\ UNCHANGED <<lines, miner, success, results, mined_by, saved>>
    /\ UNCHANGED <<unique_graphs, unique_again, query_graphs, patterns,
                   db_features, query_features, candidates, scanned,
                   total_graphs, k, selected, min_support_pct>>

NextParse == Parse

SpecParse == InitParse /\ [][NextParse]_vars

\* A node or edge line with the wrong number of tokens or with a field that
\* is not an integer.
MalformedLine(parts) ==
    /\ parts # <<>>
    /\ \/ /\ parts[1].sym = "v"
          /\ Len(parts) # 3 \/ \E i \in 2..Len(parts) : parts[i].sym # "numeral"
       \/ /\ parts[1].sym = "e"
          /\ Len(parts) # 4 \/ \E i \in 2..Len(parts) : parts[i].sym # "numeral"

\* Node n is declared by a v line before line i, after the last graph
\* marker before line i.
DeclaredBefore(file, i, n) ==
    \E j \in 1..(i - 1) :
        /\ Len(file[j]) >= 2
        /\ file[j][1].sym = "v" /\ file[j][2] = Numeral(n)
        /\ \A m \in (j + 1)..(i - 1) : file[m] = <<>> \/ file[m][1].sym # "#"

\* An edge line one of whose end points no earlier v line of the same graph
\* declares.
DanglingEdgeLine(file, i) ==
    /\ Len(file[i]) >= 3
    /\ file[i][1].sym = "e"
    /\ \E e \in 2..3 :
          /\ file[i][e].sym = "numeral"
          /\ ~DeclaredBefore(file, i, file[i][e].val)

\* C16: parse_graph_dataset does not return graphs when the file has a
\* malformed node or edge line, or an edge line naming a node that no
\* earlier v line of the same graph declares.
C16_ParseRejectsMalformed ==
    pc = "parse_done" =>
        \A i \in DOMAIN lines :
            /\ ~MalformedLine(lines[i])
            /\ ~DanglingEdgeLine(lines, i)

(***************************************************************************)
(* identify_discriminative.main, lines 581-641: the external miner, the    *)
(* fallback enumerator, selection and saving.                              *)
(***************************************************************************)
MaxPipeGraphs == 2

\* parse_gspan_output, lines 105-110: int() of the token after the first
\* '*' of a header raises ValueError when that token is not a numeral.
HeaderError(parts) ==
    IF \E i \in DOMAIN parts : parts[i].sym = "*"
    THEN LET star_idx == CHOOSE i \in DOMAIN parts :
                            /\ parts[i].sym = "*"
                            /\ \A j \in 1..(i - 1) : parts[j].sym # "*"
         IN  IF star_idx + 1 <= Len(parts)
                /\ parts[star_idx + 1].sym # "numeral"
             THEN "ValueError" ELSE "ok"
    ELSE "ok"

\* Lines 89-135, one line of the output file.  st holds patterns, the
\* pattern being read (a sequence of at most one pattern, whose graph is
\* current_graph; empty for None), pattern_id and the exception raised.
GspanLine(st, parts) ==
    IF parts = <<>> THEN st
    ELSE IF parts[1].sym = "t" /\ Len(parts) >= 3
    THEN IF HeaderError(parts) # "ok"
         THEN [st EXCEPT !.error = HeaderError(parts)]
         ELSE [st EXCEPT !.patterns = st.patterns \o st.current,
                         !.current = <<SubgraphPattern(st.pattern_id,
                                          Graph(st.pattern_id),
                                          HeaderSupport(parts), {})>>,
                         !.pattern_id = st.pattern_id + 1]
    ELSE IF parts[1].sym = "v" /\ st.current # <<>>
    THEN IF FieldsError(parts, 2) # "ok"
         THEN [st EXCEPT !.error = FieldsError(parts, 2)]
         ELSE [st EXCEPT !.current[1].graph =
                 add_node(st.current[1].graph, parts[2].val, parts[3].val)]
    ELSE IF parts[1].sym = "e" /\ st.current # <<>>
    THEN IF FieldsError(parts, 3) # "ok"
         THEN [st EXCEPT !.error = FieldsError(parts, 3)]
         ELSE [st EXCEPT !.current[1].graph =
                 add_edge(st.current[1].graph, parts[2].val, parts[3].val,
                          parts[4].val)]
    ELSE IF parts[1].sym = "x:" /\ st.current # <<>>
    THEN IF \E i \in 2..Len(parts) : parts[i].sym # "numeral"
         THEN [st EXCEPT !.error = "ValueError"]
         ELSE [st EXCEPT !.current[1].graph_ids =
                 {parts[i].val : i \in 2..Len(parts)}]
    ELSE st

RECURSIVE GspanFrom(_, _, _)
GspanFrom(st, file, i) ==
    IF i > Len(file) \/ st.error # "none" THEN st
    ELSE GspanFrom(GspanLine(st, file[i]), file, i + 1)

\* parse_gspan_output, lines 63-143: no patterns when the file does not
\* exist; otherwise the patterns read, or the exception that leaves the
\* function.
parse_gspan_output(out) ==
    IF ~out.present THEN [error |-> "none", patterns |-> <<>>]
    ELSE LET st == GspanFrom([patterns |-> <<>>, current |-> <<>>,
                              pattern_id |-> 0, error |-> "none"],
                             out.lines, 1)
         IN  [error    |-> st.error,
              patterns |-> IF st.error = "none"
                           THEN st.patterns \o st.current ELSE <<>>]

\* run_gspan with line 177 left out: the return code is not looked at.
RunGspanIgnoringReturnCode(proc) ==
    IF proc.raises = "FileNotFoundError" THEN FALSE
    ELSE IF proc.raises = "TimeoutExpired" THEN FALSE
    ELSE IF proc.raises # "none" THEN FALSE
    ELSE TRUE

\* run_gspan, lines 146-197.  proc is what subprocess.run does: the
\* exception it raises, or the return code of the finished process.  The
\* output file is not looked at.
run_gspan(proc) ==
    IF proc.raises = "FileNotFoundError" THEN FALSE
    ELSE IF proc.raises = "TimeoutExpired" THEN FALSE
    ELSE IF proc.raises # "none" THEN FALSE
    ELSE IF proc.returncode # 0 THEN FALSE
    ELSE TRUE

\* What subprocess.run can do: the executable is not there (main found
\* only gspan_path + ".exe"), the 600 s run out, another error of the
\* operating system, exit code 1, exit code 0.
ProcOutcomes ==
    { [raises |-> "FileNotFoundError", returncode |-> 0],
      [raises |-> "TimeoutExpired",    returncode |-> 0],
      [raises |-> "OSError",           returncode |-> 0],
      [raises |-> "none",              returncode |-> 1],
      [raises |-> "none",              returncode |-> 0] }

\* The output file after a run: removed, empty, one pattern (a 2-path with
\* support 1 in graph 0), two patterns, and a file whose support is not a
\* number.
OutputFiles ==
    { [present |-> FALSE, lines |-> <<>>],
      [present |-> TRUE,  lines |-> <<>>],
      [present |-> TRUE,
       lines |-> << <<Word("t"), Word("#"), Numeral(0), Word("*"), Numeral(1)>>,
                    <<Word("v"), Numeral(0), Numeral(0)>>,
                    <<Word("v"), Numeral(1), Numeral(0)>>,
                    <<Word("v"), Numeral(2), Numeral(0)>>,
                    <<Word("e"), Numeral(0), Numeral(1), Numeral(0)>>,
                    <<Word("e"), Numeral(1), Numeral(2), Numeral(0)>>,
                    <<Word("x:"), Numeral(0)>> >>],
      [present |-> TRUE,
       lines |-> << <<Word("t"), Word("#"), Numeral(0), Word("*"), Numeral(1)>>,
                    <<Word("v"), Numeral(0), Numeral(0)>>,
                    <<Word("v"), Numeral(1), Numeral(0)>>,
                    <<Word("e"), Numeral(0), Numeral(1), Numeral(7)>>,
                    <<>>,
                    <<Word("t"), Word("#"), Numeral(1), Word("*"), Numeral(2)>>,
                    <<Word("v"), Numeral(0), Numeral(0)>> >>],
      [present |-> TRUE,
       lines |-> << <<Word("t"), Word("#"), Numeral(0), Word("*"), Word("many")>>,
                    <<Word("v"), Numeral(0), Numeral(0)>> >>] }

RunOutcomes == [proc : ProcOutcomes, out : OutputFiles]

\* main, lines 585-626.  run1 and run2 are what the first and the second
\* run of the miner do; every exception inside the try block ends in
\* success = False, with patterns as they were.  Creating, writing and
\* removing the temporary files is taken to succeed.
GspanSection(use_gspan, run1, run2) ==
    IF ~use_gspan
    THEN [success |-> FALSE, patterns |-> <<>>, results |-> <<>>]
    ELSE
    LET s1 == run_gspan(run1.proc)
        p1 == parse_gspan_output(run1.out)
        s2 == run_gspan(run2.proc)
        p2 == parse_gspan_output(run2.out)
    IN  IF ~s1
        THEN [success |-> FALSE, patterns |-> <<>>, results |-> <<s1>>]
        ELSE IF p1.error # "none"
        THEN [success |-> FALSE, patterns |-> <<>>, results |-> <<s1>>]
        ELSE IF Len(p1.patterns) # 0
        THEN [success |-> TRUE, patterns |-> p1.patterns, results |-> <<s1>>]
        ELSE IF ~s2
        THEN [success |-> FALSE, patterns |-> <<>>, results |-> <<s1, s2>>]
        ELSE IF p2.error # "none"
        THEN [success |-> FALSE, patterns |-> <<>>, results |-> <<s1, s2>>]
        ELSE [success |-> TRUE, patterns |-> p2.patterns,
              results |-> <<s1, s2>>]

\* Databases of the pipeline: a single edge, a 2-path and a triangle.
PipeShapes ==
    { << <<0, 0>>, << <<0, 1, 7>> >> >>,
      << <<0, 0, 0>>, << <<0, 1, 0>>, <<1, 2, 0>> >> >>,
      << <<1, 1, 1>>, << <<0, 1, 1>>, <<1, 2, 1>>, <<2, 0, 1>> >> >> }

\* main after lines 573-582: graphs parsed and deduplicated, total_graphs
\* set, patterns = [].
InitPipe ==
    /\ pc = "pipe_mining"
    /\ \E ss \in SeqsUpTo(PipeShapes, MaxPipeGraphs) :
          /\ \A i, j \in DOMAIN ss : i # j => ss[i] # ss[j]
          /\ graphs = GraphList(ss)
          /\ total_graphs = Len(ss)
    /\ patterns = <<>> /\ selected = <<>> /\ k = K
    /\ min_support_pct = GSPAN_SUPPORT_THRESHOLD
    /\ miner = NoMiner /\ success = FALSE /\ results = <<>>
    /\ mined_by = "none" /\ saved = NotSaved
    /\ lines = <<>>
    /\ unique_graphs = <<>> /\ unique_again = <<>> /\ query_graphs = <<>>
    /\ db_features = EmptyMatrix /\ query_features = EmptyMatrix
    /\ candidates = NoValue /\ scanned = 0

\* main, lines 585-626.  miner records what the executable did in the runs
\* that took place.
MineExternal ==
    /\ pc = "pipe_mining"
    /\ \E use_gspan \in BOOLEAN, run1, run2 \in RunOutcomes :
          LET r == GspanSection(use_gspan, run1, run2)
          IN  /\ miner' = [exists |-> use_gspan,
                           runs   |-> SubSeq(<<run1, run2>>, 1, Len(r.results))]
              /\ success' = r.success
              /\ patterns' = r.patterns
              /\ results' = r.results
    /\ pc' = "pipe_mined"
    /\ UNCHANGED <<graphs, unique_graphs, unique_again, query_graphs,
                   db_features, query_features, candidates, scanned,
                   total_graphs, k, selected, min_support_pct, lines,
                   mined_by, saved>>

\* The fallback decision by `not success` alone.
FallbackOnFailureOnly ==
    /\ pc = "pipe_mined"
    /\ IF ~success
       THEN /\ patterns' = mine_frequent_subgraphs_simple(
                               graphs, GSPAN_SUPPORT_THRESHOLD)
            /\ mined_by' = "simple"
       ELSE /\ patterns' = patterns
            /\ mined_by' = "gspan"
    /\ pc' = "pipe_patterns"
    /\ UNCHANGED <<graphs, unique_graphs, unique_again, query_graphs,
                   db_features, query_features, candidates, scanned,
                   total_graphs, k, selected, min_support_pct, lines,
                   miner, success, results, saved>>

\* main, lines 629-633.
Fallback ==
    /\ pc = "pipe_mined"
    /\ IF ~success \/ Len(patterns) = 0
       THEN /\ patterns' = mine_frequent_subgraphs_simple(
                               graphs, GSPAN_SUPPORT_THRESHOLD)
            /\ mined_by' = "simple"
       ELSE /\ patterns' = patterns
            /\ mined_by' = "gspan"
    /\ pc' = "pipe_patterns"
    /\ UNCHANGED <<graphs, unique_graphs, unique_again, query_graphs,
                   db_features, query_features, candidates, scanned,
                   total_graphs, k, selected, min_support_pct, lines,
                   miner, success, results, saved>>

\* main, line 636.
SelectStep ==
    /\ pc = "pipe_patterns"
    /\ LET r == select_discriminative_subgraphs(patterns, total_graphs, k)
       IN  /\ patterns' = r.patterns
           /\ selected' = r.selected
    /\ pc' = "pipe_selected"
    /\ UNCHANGED <<graphs, unique_graphs, unique_again, query_graphs,
                   db_features, query_features, candidates, scanned,
                   total_graphs, k, min_support_pct, lines,
                   miner, success, results, mined_by, saved>>

\* main, line 639: save_discriminative_subgraphs pickles the list.
Save ==
    /\ pc = "pipe_selected"
    /\ saved' = [written |-> TRUE, patterns |-> selected]
    /\ pc' = "pipe_done"
    /\ UNCHANGED <<graphs, unique_graphs, unique_again, query_graphs,
                   patterns, db_features, query_features, candidates,
                   scanned, total_graphs, k, selected, min_support_pct,
                   lines, miner, success, results, mined_by>>

NextPipe == MineExternal \/ Fallback \/ SelectStep \/ Save

SpecPipe == InitPipe /\ [][NextPipe]_vars

\* The run of subprocess.run failed in one of the ways run_gspan is to
\* report: executable missing, timeout, non-zero exit code.
ProcFailed(run) ==
    \/ run.proc.raises \in {"FileNotFoundError", "TimeoutExpired"}
    \/ run.proc.raises = "none" /\ run.proc.returncode # 0

\* The process ended with exit code 0 and left no output file or an empty
\* one.
OutputMissing(run) ==
    /\ run.proc.raises = "none" /\ run.proc.returncode = 0
    /\ ~run.out.present \/ run.out.lines = <<>>

\* The miner attempt of main ended in one of the failures: no executable
\* found, or the last run of the miner failed or left no output.
MinerFailed ==
    /\ pc # "pipe_mining"
    /\ \/ ~miner.exists
       \/ /\ miner.runs # <<>>
          /\ \/ ProcFailed(miner.runs[Len(miner.runs)])
             \/ OutputMissing(miner.runs[Len(miner.runs)])

C27_EmittedPatternsWellFormed ==
    pc = "mine_done" =>
        \A i \in DOMAIN patterns :
            /\ patterns[i].support = Cardinality(patterns[i].graph_ids)
            /\ patterns[i].graph_ids # {}
            /\ patterns[i].graph_ids \subseteq
                   {graphs[j].id : j \in DOMAIN graphs}
            /\ patterns[i].id = i - 1

\* Two graphs mined at the default threshold: one pattern is found in both
\* graphs, another in the second graph only, and patterns of more than one
\* class are emitted.
C27_Witness ==
    /\ pc = "mine_done"
    /\ Len(graphs) = 2
    /\ min_support_pct = GSPAN_SUPPORT_THRESHOLD
    /\ \E i, j \in DOMAIN patterns :
          /\ i < j
          /\ patterns[i].graph_ids = {0, 1} /\ patterns[i].support = 2
          /\ patterns[j].graph_ids = {1} /\ patterns[j].support = 1
          /\ Len(patterns[i].graph.edges) = 1
          /\ Len(patterns[j].graph.edges) = 0

\* The lexicographically smaller of two tuples of one length.
LexMin(a, b) ==
    IF \E i \in DOMAIN a : a[i] < b[i] /\ \A j \in 1..(i - 1) : a[j] = b[j]
    THEN a ELSE b

\* The labels read along the path a - c - b of graph g.
FiveTuple(g, G, a, c, b) ==
    <<NodeLabel(g, a), G.elabel[<<a, c>>], NodeLabel(g, c),
      G.elabel[<<c, b>>], NodeLabel(g, b)>>

\* C23: the key of a length-2 path is the lexicographically smaller of its
\* five-label tuple and that tuple reversed, whichever end is visited first;
\* where one graph suffices for emission, the path pattern with that key is
\* emitted with the graph among its graph_ids.
C23_Path2KeyIsLexMin ==
    pc = "mine_done" =>
        \A gi \in DOMAIN graphs :
            LET g == graphs[gi]
                G == GraphG(g)
            IN  \A ni \in DOMAIN G.nodes :
                    LET c  == G.nodes[ni]
                        nb == G.adj[c]
                    IN  \A x, y \in DOMAIN nb :
                            x # y =>
                              LET key == Path2Key(g, G, nb[x], c, nb[y])
                                  t   == FiveTuple(g, G, nb[x], c, nb[y])
                                  rev == FiveTuple(g, G, nb[y], c, nb[x])
                              IN  /\ key = LexMin(t, rev)
                                  /\ key = Path2Key(g, G, nb[y], c, nb[x])
                                  /\ MinSupportCount(Len(graphs),
                                                     min_support_pct) <= 1
                                       => \E i \in DOMAIN patterns :
                                            /\ patterns[i].graph =
                                                 MkGraph(patterns[i].id,
                                                         Path2Body(key)[1],
                                                         Path2Body(key)[2])
                                            /\ g.id \in patterns[i].graph_ids

\* The path with end labels 0, 0 and edge labels 2, 1 is mined: read from
\* its first end the tuple is (0,2,1,1,0), the key and the emitted body are
\* its reversal (0,1,1,2,0).
C23_Witness ==
    /\ pc = "mine_done"
    /\ Len(graphs) = 1
    /\ graphs[1].edges = << <<0, 1, 2>>, <<1, 2, 1>> >>
    /\ Path2Keys(graphs[1]) = << <<0, 1, 1, 2, 0>> >>
    /\ \E i \in DOMAIN patterns :
          /\ patterns[i].graph.nodes = << <<0, 0>>, <<1, 1>>, <<2, 0>> >>
          /\ patterns[i].graph.edges = << <<0, 1, 1>>, <<1, 2, 2>> >>

(***************************************************************************)
(* Further properties of identify_discriminative.main.                     *)
(***************************************************************************)
\* The patterns read from the output file of the last run of the miner.
LastParse == parse_gspan_output(miner.runs[Len(miner.runs)].out)

\* The executable was found, its last invocation returned True and parsing
\* its output gave at least one pattern.
MinerDelivered ==
    /\ miner.exists
    /\ results # <<>>
    /\ results[Len(results)] = TRUE
    /\ LastParse.error = "none"
    /\ LastParse.patterns # <<>>

MaxLabelled == 1

\* Edges, 2-edge paths and a triangle over node labels 0, 1 and edge labels
\* 0, 1.
LabelShapes ==
    { <<<<0, 0>>,    <<<<0, 1, 0>>>>>>,
      <<<<0, 1>>,    <<<<0, 1, 0>>>>>>,
      <<<<1, 1>>,    <<<<0, 1, 0>>>>>>,
      <<<<0, 0>>,    <<<<0, 1, 1>>>>>>,
      <<<<0, 0, 0>>, <<<<0, 1, 0>>, <<1, 2, 0>>>>>>,
      <<<<0, 1, 0>>, <<<<0, 1, 0>>, <<1, 2, 0>>>>>>,
      <<<<0, 0, 0>>, <<<<0, 1, 0>>, <<1, 2, 1>>>>>>,
      <<<<0, 0, 0>>, <<<<0, 1, 1>>, <<1, 2, 1>>>>>>,
      <<<<0, 0, 0>>, <<<<0, 1, 0>>, <<1, 2, 0>>, <<2, 0, 0>>>>>> }

InitFeatLabels ==
    /\ pc = "feat_loaded"
    /\ \E n \in 1..MaxLabelled :
          \E ss \in [1..n -> LabelShapes] : graphs = GraphList(ss)
    /\ \E n \in 1..MaxLabelled :
          \E ss \in [1..n -> LabelShapes] : patterns = PatternList(ss)
    /\ query_graphs = GraphList(<< <<<<0, 0>>, <<<<0, 1, 0>>>>>> >>)
    /\ db_features = EmptyMatrix /\ query_features = EmptyMatrix
    /\ candidates = NoValue /\ scanned = 0
    /\ unique_graphs = <<>> /\ unique_again = <<>>
    /\ total_graphs = 0 /\ k = 0 /\ selected = <<>> /\ min_support_pct = 0
    /\ lines = <<>> /\ miner = NoMiner /\ success = FALSE
    /\ results = <<>> /\ mined_by = "none" /\ saved = NotSaved

SpecFeatLabels == InitFeatLabels /\ [][NextFeat]_vars

NodeLabelsOf(g) == {g.nodes[i][2] : i \in DOMAIN g.nodes}

EdgeLabelsOf(g) == {g.edges[i][3] : i \in DOMAIN g.edges}

EndpointsDeclared(g) ==
    \A i \in DOMAIN g.edges :
        g.edges[i][1] \in NodeIds(g) /\ g.edges[i][2] \in NodeIds(g)

\* C22: every Graph that parse_graph_dataset returns has both end points of
\* every edge among the keys of its nodes.
C22_EdgeEndpointsDeclared ==
    pc = "parse_done" => \A i \in DOMAIN graphs : EndpointsDeclared(graphs[i])

\* The edges of the adjacency structure, as unordered pairs of nodes.
AdjacencyEdges(G) == {{uv[1], uv[2]} : uv \in DOMAIN G.elabel}

\* C24: for every Graph built by add_node and add_edge calls, the adjacency
\* structure derived from it has the keys of nodes as its node set, as many
\* edges as the edge list has triples, and an edge {u, v} labelled l exactly
\* when the edge list holds a triple between u and v labelled l.
C24_AdjacencyMatchesEdgeList ==
    pc = "parse_done" =>
        \A i \in DOMAIN graphs :
            LET g == graphs[i]
                G == graph_to_networkx(g)
            IN  /\ NxNodes(G) = NodeIds(g)
                /\ num_edges(g) = Cardinality(AdjacencyEdges(G))
                /\ \A x \in DOMAIN g.edges :
                      /\ has_edge(G, g.edges[x][1], g.edges[x][2])
                      /\ G.elabel[<<g.edges[x][1], g.edges[x][2]>>]
                            = g.edges[x][3]
                /\ \A uv \in DOMAIN G.elabel :
                      \E x \in DOMAIN g.edges :
                          /\ {g.edges[x][1], g.edges[x][2]} = {uv[1], uv[2]}
                          /\ g.edges[x][3] = G.elabel[uv]

(***************************************************************************)
(* Order of the scan in the fallback miner.                                *)
(***************************************************************************)
\* The entries (key, graph_ids) of a support counter; support is the size
\* of graph_ids.
Entries(dct) == {<<key, dct.ids[key]>> : key \in Range(dct.keys)}

EdgeEntries(gs) == Entries(Tally(gs, [i \in DOMAIN gs |-> EdgeKeys(gs[i])]))

Path2Entries(gs) == Entries(Tally(gs, [i \in DOMAIN gs |-> Path2Keys(gs[i])]))

\* The graphs of gs at the positions of S, in their order in gs.
Part(gs, S) ==
    [r \in 1..Cardinality(S) |->
        gs[CHOOSE i \in S : Cardinality({j \in S : j < i}) = r - 1]]

\* Two counters merged: under every key the union of the two id sets.
Merged(ea, eb) ==
    LET keys == {e[1] : e \in ea \cup eb}
    IN  {<<key, UNION {e[2] : e \in {x \in ea \cup eb : x[1] = key}}>> :
            key \in keys}

\* The patterns without their ids: body, graph_ids and support.
Emitted(pats) ==
    {<<pats[i].graph.nodes, pats[i].graph.edges, pats[i].graph_ids,
       pats[i].support>> : i \in DOMAIN pats}

\* C25: the support counters of the single-edge and 2-path classes hold the
\* same (key, graph_ids, support) entries when the graphs are scanned in
\* any other order, and when two parts of the graphs are scanned apart and
\* merged; the patterns emitted for the reversed list are the same set.
C25_ScanOrderIndependent ==
    pc = "mine_done" =>
        LET n  == Len(graphs)
            ek == <<>> \o [i \in 1..n |-> <<>> \o EdgeKeys(graphs[i])]
            pk == <<>> \o [i \in 1..n |-> <<>> \o Path2Keys(graphs[i])]
            edges == Entries(Tally(graphs, ek))
            paths == Entries(Tally(graphs, pk))
        IN  /\ edges = EdgeEntries(graphs)
            /\ paths = Path2Entries(graphs)
            /\ \A f \in {h \in [1..n -> 1..n] : Injective(h)} :
                  LET perm == [i \in 1..n |-> graphs[f[i]]]
                  IN  /\ Entries(Tally(perm, [i \in 1..n |-> ek[f[i]]])) = edges
                      /\ Entries(Tally(perm, [i \in 1..n |-> pk[f[i]]])) = paths
            /\ \A S \in SUBSET (1..n) :
                  LET T  == (1..n) \ S
                      ix == [i \in 1..n |-> i]
                      A  == Part(graphs, S)
                      B  == Part(graphs, T)
                      ia == Part(ix, S)
                      ib == Part(ix, T)
                  IN  /\ Merged(Entries(Tally(A, [r \in DOMAIN ia |-> ek[ia[r]]])),
                                Entries(Tally(B, [r \in DOMAIN ib |-> ek[ib[r]]])))
                            = edges
                      /\ Merged(Entries(Tally(B, [r \in DOMAIN ib |-> pk[ib[r]]])),
                                Entries(Tally(A, [r \in DOMAIN ia |-> pk[ia[r]]])))
                            = paths
            /\ Emitted(mine_frequent_subgraphs_simple(
                          [i \in 1..n |-> graphs[n + 1 - i]], min_support_pct))
                  = Emitted(patterns)

\* Three graphs, a 2-path, a single edge and the 4-cycle with a chord: the
\* edge label 0 and the 2-path key of zeros are both counted for the first
\* and the third graph, the edge label 7 for the second.
C25_Witness ==
    /\ pc = "mine_done"
    /\ Len(graphs) = 3
    /\ <<0, {0, 2}>> \in EdgeEntries(graphs)
    /\ <<7, {1}>> \in EdgeEntries(graphs)
    /\ Path2Entries(graphs) = {<<(<<0, 0, 0, 0, 0>>), {0, 2}>>}

====
